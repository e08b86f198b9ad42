-------------------------------- MODULE Sketch --------------------------------
(***************************************************************************)
(* The blocks of a sketch in prover_subagent.py: the edits the model sends *)
(* (replace_block_by_id), the compile, and the retirement of the blocks    *)
(* that are done, from a submission as Normalize prepares it.              *)
(*                                                                         *)
(* Lean is outside: a compile gives any list of errors, in any order.      *)
(* Their positions are those of the text without its import lines          *)
(* (search_replace_then_compile); the blocks' are those of the whole text. *)
(* A marker that prepare() did not write is foreign: it is in a comment of *)
(* the submission (strip_preamble takes out only lines of their own), or   *)
(* in the model's code, which is inserted as it is.  A line has at most    *)
(* one marker; EVOLVE-VALUE markers, which nobody writes, are left out.    *)
(***************************************************************************)
EXTENDS Normalize, FiniteSets

CONSTANTS Submissions,  \* sequences of commands
          Modes,        \* "lean", "nl"
          Codes,        \* what the model may put into a block
          Shapes,       \* how far an error goes and at what columns
          MaxErrors,    \* errors of a compile (bound)
          MaxLines      \* lines up to which a text may grow (bound)

ASSUME SubmissionsAssumption == \A s \in Submissions : s \in Seq(Command)
ASSUME ModesAssumption == Modes \subseteq {"lean", "nl"}
ASSUME CodesAssumption == Codes \subseteq Seq({"tac", "sorry", "start", "end"})
ASSUME ShapesAssumption == Shapes \subseteq [span : Nat, at : Nat, col : Nat]
ASSUME BoundsAssumption == MaxErrors \in Nat /\ MaxLines \in Nat

VARIABLES
  request,     \* the submission, until it is prepared
  phase,       \* "submitted", "rejected", "whole", "editing", "exhausted", "raised"
  text,        \* running_sketch.lean_sketch
  foreign,     \* history: a foreign marker came into the text
  overlooked   \* history: what the last retirement closed blocks in spite of

vars == <<request, phase, text, foreign, overlooked>>

-----------------------------------------------------------------------------
(* The members of S from 1 to n, in their order *)
InOrder(S, n) ==
  LET upTo[i \in 0..n] ==
        IF i = 0 THEN <<>> ELSE IF i \in S THEN Append(upTo[i - 1], i) ELSE upTo[i - 1]
  IN upTo[n]

(* list_evolve_blocks: the markers are paired by their order *)

Marked(t, mark) == InOrder({k \in DOMAIN t : t[k].mark = mark}, Len(t))

ListEvolve(t) ==
  LET starts == Marked(t, "start")
      ends   == Marked(t, "end")
      pairs  == IF Len(starts) < Len(ends) THEN Len(starts) ELSE Len(ends)
      proper == InOrder({k \in 1..pairs : starts[k] < ends[k]}, pairs)
  IN [k \in DOMAIN proper |-> [first |-> starts[proper[k]], last |-> ends[proper[k]]]]

Column(l) == IF l.part \in {"start", "end"} THEN 1 ELSE 3   \* of its marker

-----------------------------------------------------------------------------
(* The model's edits *)

(* A line of the model's code in a block of command i *)
CodeLine(i, l) == [Tactic(i, l) EXCEPT !.mark = IF l \in {"start", "end"} THEN l ELSE "no"]

HasMarker(code) == \E k \in DOMAIN code : code[k] \in {"start", "end"}

ReplaceTooMuch(t, id, code) ==   \* mutant: the end marker's line goes too
  LET blocks == ListEvolve(t)
      b == blocks[(IF id < 0 THEN Len(blocks) + id ELSE id) + 1]
  IN IF id >= Len(blocks) THEN t
     ELSE SubSeq(t, 1, b.first) \o [k \in DOMAIN code |-> CodeLine(t[b.first].of, code[k])]
            \o SubSeq(t, b.last + 1, Len(t))

(* A block that does not exist is left alone; -1 is the last one. *)
ReplaceBlockById(t, id, code) ==
  LET blocks == ListEvolve(t)
      b == blocks[(IF id < 0 THEN Len(blocks) + id ELSE id) + 1]
  IN IF id >= Len(blocks) THEN t
     ELSE SubSeq(t, 1, b.first) \o [k \in DOMAIN code |-> CodeLine(t[b.first].of, code[k])]
            \o SubSeq(t, b.last, Len(t))

-----------------------------------------------------------------------------
(* The errors of a compile, and what they leave of the blocks *)

Imports(t) == Cardinality({k \in DOMAIN t : \A j \in 1..k : t[j].part = "import"})

(* An error at lines from..to of the text, from column at to column col; *)
(* NoPlace is one without a position.                                    *)
NoPlace == [from |-> 0, to |-> 0, at |-> 0, col |-> 0]

Errors(t) ==
  {NoPlace} \cup
  {[from |-> l, to |-> l + s.span, at |-> s.at, col |-> s.col] :
     l \in Imports(t) + 1..Len(t), s \in Shapes}

ReportedTwice(t, e) ==   \* mutant: two lines off
  [e EXCEPT !.from = @ - Imports(t) - 1, !.to = @ - Imports(t) - 1]

Reported(t, e) == [e EXCEPT !.from = @ - Imports(t), !.to = @ - Imports(t)]

(* feedback_to_error_positions: in the order of the compile's messages *)
Positions(t, es) ==
  LET placed == InOrder({i \in DOMAIN es : es[i] # NoPlace}, Len(es))
  IN [i \in DOMAIN placed |-> Reported(t, es[placed[i]])]

Before(t, e, b) == e.to < b.first \/ (e.to = b.first /\ e.col < Column(t[b.first]))
After(t, e, b)  == e.from > b.last \/ (e.from = b.last /\ e.at > Column(t[b.last]))

SorryIn(t, b) == \E k \in b.first..b.last : t[k].sorry

(* From errors[j] on, the first that is not before the block *)
Skip(t, errors, j, b) ==
  CHOOSE i \in j..Len(errors) + 1 :
    /\ \A h \in j..i - 1 : Before(t, errors[h], b)
    /\ i <= Len(errors) => ~Before(t, errors[i], b)

(* The loop's index j at each block: one walk down the list for all. *)
Indices(t, errors) ==
  LET blocks == ListEvolve(t)
      j[k \in 0..Len(blocks)] == IF k = 0 THEN 1 ELSE Skip(t, errors, j[k - 1], blocks[k])
  IN j

Done(t, errors, j, b) ==
  /\ ~SorryIn(t, b)
  /\ j > Len(errors) \/ After(t, errors[j], b)

(* From the top down to the first block that is not done. *)
RetiredCount(t, es) ==
  LET blocks == ListEvolve(t)
      errors == Positions(t, es)
      j == Indices(t, errors)
  IN CHOOSE n \in 0..Len(blocks) :
       /\ \A k \in 1..n : Done(t, errors, j[k], blocks[k])
       /\ n < Len(blocks) => ~Done(t, errors, j[n + 1], blocks[n + 1])

RetireEnds(t, n) ==   \* mutant: the start markers stay
  LET gone == SubSeq(ListEvolve(t), 1, n)
      ends == {gone[k].last : k \in DOMAIN gone}
  IN [k \in DOMAIN t |-> IF k \in ends THEN [t[k] EXCEPT !.mark = "no"] ELSE t[k]]

(* The markers of the first n blocks are blanked. *)
Retire(t, n) ==
  LET gone == SubSeq(ListEvolve(t), 1, n)
      ends == UNION {{gone[k].first, gone[k].last} : k \in DOMAIN gone}
  IN [k \in DOMAIN t |-> IF k \in ends THEN [t[k] EXCEPT !.mark = "no"] ELSE t[k]]

(* es[i] is placed in the block, ... *)
Inside(t, e, b) ==
  /\ e # NoPlace /\ e.to > b.first /\ e.from < b.last
  /\ ~(e.to = b.first + 1 /\ e.col < Column(t[b.first]))

(* ... but the list has an error before it that lies below the block. *)
Hidden(es, i, b) == \E h \in 1..i - 1 : es[h].from > b.last

(* The first n blocks that have a sorry or an error that is not hidden *)
Overlooked(t, es, n) ==
  LET blocks == ListEvolve(t)
  IN {k \in 1..n : \/ SorryIn(t, blocks[k])
                   \/ \E i \in DOMAIN es : Inside(t, es[i], blocks[k]) /\ ~Hidden(es, i, blocks[k])}

-----------------------------------------------------------------------------
Init ==
  /\ request \in [commands : Submissions, mode : Modes]
  /\ phase = "submitted" /\ text = <<>> /\ foreign = FALSE /\ overlooked = {}

(* prepare(); a text that could compile may still not. *)
Prepare ==
  /\ phase = "submitted"
  /\ \/ /\ Accepts(request.commands, request.mode)
        /\ text' = NormalizedLean(request.commands, request.mode)
        /\ phase' = IF request.mode = "lean" THEN "editing" ELSE "whole"
     \/ phase' = "rejected" /\ text' = <<>>
  /\ request' = [request EXCEPT !.commands = <<>>]
  /\ foreign' = \E i \in DOMAIN request.commands : NoteMark(request.commands[i]) # "no"
  /\ UNCHANGED overlooked

(* One replacement of a call, in search_replace_then_compile *)
Replace(id, code) ==
  /\ phase = "editing"
  /\ text' = ReplaceBlockById(text, id, code)
  /\ Len(text') <= MaxLines \/ Len(text') <= Len(text)
  /\ foreign' = (foreign \/ (id < Len(ListEvolve(text)) /\ HasMarker(code)))
  /\ UNCHANGED <<request, phase, overlooked>>

(* An id below -len is no index of the list: the session is lost. *)
ReplaceRaises ==
  /\ phase = "editing"
  /\ phase' = "raised"
  /\ UNCHANGED <<request, text, foreign, overlooked>>

CompileStale ==   \* mutant: the blocks before the retirement decide
  /\ phase = "editing"
  /\ \E es \in BoundedSeq(Errors(text), MaxErrors) :
       LET n == RetiredCount(text, es)
       IN text' = Retire(text, n) /\ overlooked' = Overlooked(text, es, n)
  /\ phase' = IF ListEvolve(text) = <<>> THEN "exhausted" ELSE "editing"
  /\ UNCHANGED <<request, foreign>>

(* The compile after the replacements of a call, and the retirement: with *)
(* no block left the session is over.                                     *)
Compile ==
  /\ phase = "editing"
  /\ \E es \in BoundedSeq(Errors(text), MaxErrors) :
       LET n == RetiredCount(text, es)
       IN text' = Retire(text, n) /\ overlooked' = Overlooked(text, es, n)
  /\ phase' = IF ListEvolve(text') = <<>> THEN "exhausted" ELSE "editing"
  /\ UNCHANGED <<request, foreign>>

Next ==
  \/ Prepare \/ ReplaceRaises \/ Compile
  \/ LET n == Len(ListEvolve(text))
     IN \E id \in -n..n, code \in Codes : Replace(id, code)

Spec == Init /\ [][Next]_vars

-----------------------------------------------------------------------------
(* Properties *)

(***************************************************************************)
(* Types; and a session goes on only while it has a block to work on (an   *)
(* earlier version prodded the model with empty feedback after the last).  *)
(***************************************************************************)
TypeOK ==
  /\ request \in [commands : Submissions \cup {<<>>}, mode : Modes]
  /\ phase \in {"submitted", "rejected", "whole", "editing", "exhausted", "raised"}
  /\ text \in Seq(Line)
  /\ foreign \in BOOLEAN
  /\ overlooked \subseteq Nat
  /\ phase = "editing" /\ ~foreign => ListEvolve(text) # <<>>

Statement(t) ==
  LET lines == InOrder({k \in DOMAIN t : t[k].part \in {"import", "blank", "head"}}, Len(t))
  IN [k \in DOMAIN lines |-> t[lines[k]]]

(***************************************************************************)
(* No step of a session changes anything above the first block that is     *)
(* open: what is retired stays as it was checked.  Nor does it change a    *)
(* statement, as long as no foreign marker is in the text: with one, the   *)
(* pairs are wrong, and a replacement can run over the next theorem's.     *)
(***************************************************************************)
OutsideKept ==
  [][phase = "editing" =>
       /\ ~foreign' => Statement(text') = Statement(text)
       /\ LET blocks == ListEvolve(text)
          IN blocks # <<>> =>
               SubSeq(text', 1, blocks[1].first - 1) = SubSeq(text, 1, blocks[1].first - 1)]_vars

(***************************************************************************)
(* A block is closed only if it has no sorry, and if no error is placed in *)
(* it but behind one, in the order of the compile's messages, that lies    *)
(* below the block: the walk stops there and takes the block to be done.   *)
(* The errors are counted from below the import and the blocks from the    *)
(* top: one line off, which hides only an error that ends left of the      *)
(* marker's column in the first line of the block.                         *)
(***************************************************************************)
RetiredIsDone == overlooked = {}

Owners(t) == [k \in DOMAIN ListEvolve(t) |-> t[ListEvolve(t)[k].first].of]

(***************************************************************************)
(* As long as no foreign marker is in the text, the open blocks only ever  *)
(* get fewer, from the top: what the counts of ProverRace rely on, and     *)
(* what makes the model's numbering of them hold.                          *)
(***************************************************************************)
OpenBlocksShrink ==
  [][phase = "editing" /\ ~foreign' => IsSuffix(Owners(text'), Owners(text))]_vars

(***************************************************************************)
(* "Turn arbitrary user-submitted Lean into a file the prover can consume" *)
(* (normalize.py:1), which only edits the blocks: a sorry outside of them  *)
(* is there for good.                                                      *)
(***************************************************************************)
SorriesEditable ==
  \A k \in DOMAIN text :
    text[k].sorry /\ phase = "editing"
      => \E b \in Range(ListEvolve(text)) : k \in b.first..b.last
=============================================================================
