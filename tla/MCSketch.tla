------------------------------- MODULE MCSketch -------------------------------
(* Sketch for submissions of up to three commands. *)
EXTENDS Sketch

By(here, rest) ==
  [kind |-> "theorem", doc |-> FALSE, proof |-> "by", here |-> here, rest |-> rest,
   note |-> "no", tail |-> FALSE]
Theorem(proof) == [By("", <<>>) EXCEPT !.proof = proof]
Noted(note) == [By("", <<"sorry">>) EXCEPT !.note = note]

(* The forms of tests/test_normalize.py, and theirs with comments. *)
MCCommands ==
  LET plain == {By("sorry", <<>>), By("", <<>>), By("", <<"tac", "sorry">>), By("", <<"tac">>)}
                 \cup {Theorem(p) : p \in {"none", "term", "sorry", "termsorry"}}
  IN plain \cup {[Theorem(p) EXCEPT !.kind = "def"] : p \in {"term", "sorry"}}
       \cup {[By("sorry", <<>>) EXCEPT !.doc = TRUE], [By("sorry", <<>>) EXCEPT !.tail = TRUE],
             [By("", <<"sorry">>) EXCEPT !.tail = TRUE], [Theorem("sorry") EXCEPT !.note = "plain"]}
       \cup {Noted(n) : n \in {"plain", "start", "end"}}

(* Each alone and before or after a theorem; and three theorems *)
MCSubmissions ==
  {<<c>> : c \in MCCommands}
    \cup {<<c, By("sorry", <<>>)>> : c \in MCCommands}
    \cup {<<Theorem("sorry"), c>> : c \in MCCommands}
    \cup {<<By("sorry", <<>>), Theorem("sorry"), By("sorry", <<>>)>>}

(* A theorem with a doc comment, beside a plain one. *)
MCDocumented == {<<[By("sorry", <<>>) EXCEPT !.doc = TRUE], By("sorry", <<>>)>>}

MCCodes == {<<"tac">>, <<"sorry">>, <<"start">>, <<"end", "start">>}

(* One line or two, left or right of the markers' columns *)
MCShapes == {[span |-> 0, at |-> 0, col |-> 5], [span |-> 1, at |-> 5, col |-> 0]}
===============================================================================
