------------------------------- MODULE Normalize -------------------------------
(***************************************************************************)
(* server/lean/normalize.py: what prepare() makes of a submission.         *)
(*                                                                         *)
(* A submission is a sequence of commands, as the checker cuts it: a       *)
(* command runs up to the next one, so that comments between two belong to *)
(* the first.  A text is a sequence of lines; of a line we keep the        *)
(* command it is of, its part, whether it has a sorry, and the EVOLVE      *)
(* marker on it.  Lone markers and imports of the user are gone already    *)
(* (strip_preamble); an example is a theorem once it has a name.           *)
(***************************************************************************)
EXTENDS Integers, Sequences, SequencesExt

(***************************************************************************)
(* A command: has it a doc comment before it; what follows its statement;  *)
(* for "by", the tactic on the line of the `by` and the lines after it;    *)
(* has its first line a trailing comment (which may be a marker), and does *)
(* a comment line follow.                                                  *)
(***************************************************************************)
Command ==
  [kind : {"theorem", "def"}, doc : BOOLEAN,
   proof : {"none", "term", "sorry", "termsorry", "by"},
   here : {"", "tac", "sorry"}, rest : Seq({"tac", "sorry"}),
   note : {"no", "plain", "start", "end"}, tail : BOOLEAN]

Line ==
  [of : Nat, part : {"import", "blank", "head", "tac", "tail", "start", "end"},
   sorry : BOOLEAN, mark : {"no", "start", "end"}]

Plain(i, part) == [of |-> i, part |-> part, sorry |-> FALSE, mark |-> "no"]

(* BLOCK_START and BLOCK_END, alone on their lines. *)
Marker(i, mark) == [Plain(i, mark) EXCEPT !.mark = mark]

Tactic(i, tac) == [Plain(i, "tac") EXCEPT !.sorry = (tac = "sorry")]

NoteMark(c) == IF c.note \in {"start", "end"} THEN c.note ELSE "no"

Commented(c) == c.note # "no" \/ c.tail

HasSorry(c) ==
  c.proof \in {"sorry", "termsorry"} \/ c.here = "sorry" \/ \E k \in DOMAIN c.rest : c.rest[k] = "sorry"

HeadLine(c, i) ==
  [Plain(i, "head") EXCEPT !.sorry = c.proof \in {"sorry", "termsorry"} \/ c.here = "sorry",
                           !.mark = NoteMark(c)]

TailLine(c, i) == IF c.tail THEN <<Plain(i, "tail")>> ELSE <<>>

Rest(c, i) == [k \in DOMAIN c.rest |-> Tactic(i, c.rest[k])] \o TailLine(c, i)

-----------------------------------------------------------------------------
(* rewrite_unit *)

(* The expression that finds the keyword starts at the command's start, so *)
(* a doc comment hides it, and the command is passed on as it is.          *)
IsDecl(c) == ~c.doc

IsTheorem(c) == IsDecl(c) /\ c.kind = "theorem"

(* "sorry_in_def", "unsupported_proof_shape" *)
UnitRejected(c) == \/ IsDecl(c) /\ c.kind = "def" /\ HasSorry(c)
                   \/ IsTheorem(c) /\ c.proof = "termsorry"

NoTactic(c) == c.proof = "by" /\ c.here = "" /\ c.rest = <<>>

(* No proof, a term-mode sorry, or a bare `by`, at the end of the command: *)
(* a tactic block with a sorry.                                            *)
Completed(c) == IsTheorem(c) /\ (c.proof \in {"none", "sorry"} \/ NoTactic(c)) /\ ~Commented(c)

AsTactics(c) ==
  IF Completed(c) THEN [c EXCEPT !.proof = "by", !.here = "", !.rest = <<"sorry">>] ELSE c

(***************************************************************************)
(* _wrap_tactic_block: the split is at the end of the line of the `by`;    *)
(* what shares that line stays there, unless it is all there is.           *)
(***************************************************************************)
Wrap(c, i) ==
  LET block(body) == <<Marker(i, "start")>> \o body \o <<Marker(i, "end")>>
  IN IF c.rest = <<>> /\ ~c.tail
     THEN <<Plain(i, "head")>> \o block(<<[Tactic(i, c.here) EXCEPT !.mark = NoteMark(c)]>>)
     ELSE <<HeadLine(c, i)>> \o block(Rest(c, i))

Wrapped(c) == IsTheorem(c) /\ AsTactics(c).proof = "by" /\ HasSorry(AsTactics(c))

Rewritten(c, i, inject) ==
  LET t == AsTactics(c)
  IN IF inject /\ Wrapped(c) THEN Wrap(t, i) ELSE <<HeadLine(t, i)>> \o Rest(t, i)

(***************************************************************************)
(* The command lost the white space at its end: what it ends with and the  *)
(* next command are on one line.  Only _wrap_tactic_block puts it back.    *)
(***************************************************************************)
Runs(c, inject) ==
  \/ Completed(c) /\ ~inject
  \/ IsTheorem(c) /\ c.proof \in {"none", "sorry"} /\ Commented(c)

(* " := by" went into a comment, or there was no tactic to begin with. *)
NoProof(c) == LET t == AsTactics(c) IN c.kind = "theorem" /\ (t.proof = "none" \/ NoTactic(t))

RunsInto(s, i, inject) == i > 1 /\ ~s[i].doc /\ Runs(s[i - 1], inject)

(* What stands on the next command's first line is part of the comment. *)
Swallowed(s, i, inject) == RunsInto(s, i, inject) /\ Commented(s[i - 1])

Piece(s, i, inject) ==
  LET lines == Rewritten(s[i], i, inject)
  IN IF Swallowed(s, i, inject) THEN SubSeq(lines, 2, Len(lines)) ELSE lines

Broken(s, inject) ==
  \E i \in DOMAIN s :
    \/ NoProof(s[i])
    \/ RunsInto(s, i, inject) /\ ~Commented(s[i - 1])
    \/ Swallowed(s, i, inject)
         /\ \E k \in DOMAIN Piece(s, i, inject) : Piece(s, i, inject)[k].part = "tac"

Body(s, inject) == FlattenSeq([i \in DOMAIN s |-> Piece(s, i, inject)])   \* the pieces, joined

HeaderLines == <<Plain(0, "import"), Plain(0, "blank")>>

-----------------------------------------------------------------------------
(* prepare *)

(* hard_rejections' "no_theorem" and the commands' *)
Rejected(s) == \/ \A i \in DOMAIN s : s[i].kind # "theorem"
               \/ \E i \in DOMAIN s : UnitRejected(s[i])

(* What is accepted: it compiles, has a sorry and, for "lean", a block.    *)
Accepts(s, mode) ==
  LET body == Body(s, mode = "lean")
  IN /\ ~Rejected(s) /\ ~Broken(s, mode = "lean")
     /\ \E k \in DOMAIN body : body[k].sorry
     /\ mode = "lean" => \E k \in DOMAIN body : body[k].mark = "start"

NormalizedLean(s, mode) == HeaderLines \o Body(s, mode = "lean")
=============================================================================
