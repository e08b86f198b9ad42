--------------------------- MODULE ProverRaceProofs ---------------------------
(***************************************************************************)
(* Proofs about ProverRace for any finite set of workers and any bounds.   *)
(* The invariants lean on two facts of their own: a report is only there   *)
(* once main() has come to a result (RcInv), and the parent's counter is   *)
(* the number of reports it took (CountInv), so that a counter at the      *)
(* number of workers means that each of them reported.                     *)
(***************************************************************************)
EXTENDS ProverRace, TLAPS, FiniteSetTheorems

Taken == {w \in Workers : report[w] = "taken"}

(* Before its report a worker has no result, after it it has. *)
RcInv ==
  \A w \in Workers :
    /\ pc[w] \in Live \ {"report", "flush"} => rc[w] = "none"
    /\ pc[w] \in {"report", "flush"} => rc[w] # "none"
    /\ report[w] # "none" => rc[w] # "none" /\ pc[w] \in {"flush", "gone"}

CountInv == returned = Cardinality(Taken)

(* What the parent knows of the reports it took. *)
ParentInv ==
  /\ ppc = "waiting" => \A w \in Taken : rc[w] = "fail"
  /\ ppc = "stopping" => code = "ok" /\ \A w \in Workers \ left : pc[w] = "gone"
  /\ ppc = "ended" /\ code # "ok" => \A w \in Workers : report[w] = "taken" /\ rc[w] = "fail"
  /\ ppc = "ended" /\ code = "ok" => \A w \in Workers : pc[w] = "gone"

(* What has been verified, where a worker is about to write it. *)
VerifyInv ==
  /\ \A w \in Workers : pc[w] \in {"write", "dump"} => Sketch(w) \in verified
  /\ \A w \in Workers : rfile[w] \in Sketches => rfile[w] \in verified
  /\ shown.safeverify = "ok" => verified # {}

VerdictInv ==
  /\ verdict.verdict # "none" => ppc = "ended"
  /\ ProvedIsShown
  /\ verdict.verdict = "proved" /\ Results = {} => code = "ok"

(* "whole" compiles within the budget only. *)
TokenInv ==
  script = "whole" => \A w \in Workers :
    /\ tokens[w] <= MaxTokens + 1
    /\ pc[w] \in {"compile", "verify"} => tokens[w] <= MaxTokens

(* A sketch is numbered once it has been compiled. *)
DraftInv == \A w \in Workers :
  /\ pc[w] = "compile" => drafts[w] < MaxSketches
  /\ pc[w] \notin {"report", "flush", "gone"} => iters[w] <= MaxIters
  /\ pc[w] \in {"verify", "write", "dump"} => drafts[w] > 0

IInv == TypeOK /\ DraftInv /\ RcInv /\ CountInv /\ ParentInv /\ VerifyInv /\ VerdictInv
          /\ TokenInv /\ BlocksAddUp

USE WorkersAssumption, ScriptsAssumption, BoundsAssumption, BlocksAssumption, NoSketchAssumption

(* Every event leaves a record of the same kind. *)
LEMMA ShownTypes ==
  ASSUME shown \in Records, NEW w \in Workers
  PROVE  /\ <<w, drafts[w] + 1>> \in Sketches => SketchShown(w) \in Records
         /\ \A s \in Records, c \in 0..Blocks : BlocksShown(s, c) \in Records
         /\ \A s \in Records, k \in Nat : ClosedShown(s, k) \in Records
         /\ VerifyShown \in Records /\ VerifyShown.phase \in {"proving", "verifying"}
         /\ \A ok \in BOOLEAN : ResultShown(ok) \in Records
         /\ FoundShown \in Records
<1>1. <<w, drafts[w] + 1>> \in Sketches => SketchShown(w) \in Records
  BY DEF Records, SketchShown
<1>2. ASSUME NEW s \in Records, NEW c \in 0..Blocks PROVE BlocksShown(s, c) \in Records
  <2>1. s.total \in 0..Blocks /\ s.closed \in Nat
    BY DEF Records
  <2> DEFINE total == IF c > s.total THEN c ELSE s.total
  <2>2. total \in 0..Blocks /\ total - c \in Nat
    BY <2>1
  <2>3. BlocksShown(s, c) = [s EXCEPT !.total = total, !.closed = total - c]
    BY DEF BlocksShown
  <2> HIDE DEF total
  <2> QED
    BY <2>2, <2>3 DEF Records
<1>3. ASSUME NEW s \in Records, NEW k \in Nat PROVE ClosedShown(s, k) \in Records
  BY DEF Records, ClosedShown
<1>4. VerifyShown \in Records /\ VerifyShown.phase \in {"proving", "verifying"}
  <2>1. CASE shown.phase = "proving"
    BY <2>1 DEF Records, VerifyShown
  <2>2. CASE shown.phase # "proving"
    BY <2>2 DEF Records, VerifyShown
  <2> QED
    BY <2>1, <2>2
<1>5. ASSUME NEW ok \in BOOLEAN PROVE ResultShown(ok) \in Records
  <2>1. CASE ok
    BY <2>1 DEF Records, ResultShown
  <2>2. CASE ~ok /\ shown.phase = "verifying"
    BY <2>2 DEF Records, ResultShown
  <2>3. CASE ~ok /\ shown.phase # "verifying"
    BY <2>3 DEF Records, ResultShown
  <2> QED
    BY <2>1, <2>2, <2>3
<1>6. FoundShown \in Records
  BY DEF Records, FoundShown
<1> QED
  BY <1>1, <1>2, <1>3, <1>4, <1>5, <1>6

(* Types, with the counter bounded through what it counts. *)
LEMMA TypeStep ==
  ASSUME IInv, [Next]_vars
  PROVE  TypeOK'
<1>1. ASSUME NEW w \in Workers, Raises(w) PROVE TypeOK'
  BY <1>1 DEF Raises, TypeOK, IInv, Goto, Ends, Live, session, parent
<1>2. ASSUME NEW w \in Workers, Boot(w) PROVE TypeOK'
  BY <1>2 DEF Boot, TypeOK, IInv, Goto, Live, session, parent
<1>3. ASSUME NEW w \in Workers, Opened(w) PROVE TypeOK'
  BY <1>3 DEF Opened, TypeOK, IInv, Goto, Live, Answers, Sketches, parent
<1>4. ASSUME NEW w \in Workers, GivesUp(w) PROVE TypeOK'
  BY <1>4 DEF GivesUp, TypeOK, IInv, Goto, Ends, Live, parent, NextIter, GoesOn, WithinBudget,
     DraftInv
<1>5. ASSUME NEW w \in Workers, Receive(w) PROVE TypeOK'
  BY <1>5 DEF Receive, TypeOK, IInv, Goto, Live, Sketches, parent, NextIter, GoesOn, DraftInv
<1>6. ASSUME NEW w \in Workers, Unusable(w) PROVE TypeOK'
  BY <1>6 DEF Unusable, TypeOK, IInv, Goto, Ends, Live, parent, NextIter, GoesOn, DraftInv
<1>7. ASSUME NEW w \in Workers, CompiledBlocks(w) PROVE TypeOK'
  <2>1. PICK k \in 0..open[w] :
          /\ open' = [open EXCEPT ![w] = @ - k]
          /\ IF k = open[w]
             THEN /\ Goto(w, "verify") /\ UNCHANGED tokens
                  /\ shown' = [ClosedShown(BlocksShown(SketchShown(w), open[w]), k)
                                EXCEPT !.phase = VerifyShown.phase]
             ELSE /\ Goto(w, "ask") /\ tokens' = Charged(w)
                  /\ shown' = ClosedShown(BlocksShown(SketchShown(w), open[w]), k)
    BY <1>7 DEF CompiledBlocks
  <2>2. <<w, drafts[w] + 1>> \in Sketches
    BY <1>7 DEF CompiledBlocks, IInv, DraftInv, TypeOK, Sketches
  <2> DEFINE s == ClosedShown(BlocksShown(SketchShown(w), open[w]), k)
  <2>3. shown' \in Records
    <3>1. s \in Records /\ VerifyShown.phase \in {"proving", "verifying"}
      BY <2>2, ShownTypes, k \in Nat, open[w] \in 0..Blocks DEF IInv, TypeOK
    <3>2. shown' = s \/ shown' = [s EXCEPT !.phase = VerifyShown.phase]
      BY <2>1
    <3> HIDE DEF s
    <3> QED
      BY <3>1, <3>2 DEF Records
  <2>4. open' \in [Workers -> 0..Blocks]
    BY <2>1 DEF IInv, TypeOK
  <2>5. tokens' \in [Workers -> 0..MostTokens]
    BY <2>1 DEF Charged, MostTokens, IInv, TypeOK
  <2>6. pc' \in [Workers -> Live \cup {"gone"}]
    BY <2>1 DEF Goto, Live, IInv, TypeOK
  <2>7. drafts' \in [Workers -> 0..MaxSketches]
    BY <1>7 DEF CompiledBlocks, IInv, DraftInv, TypeOK
  <2> QED
    BY <1>7, <2>3, <2>4, <2>5, <2>6, <2>7 DEF CompiledBlocks, IInv, TypeOK, parent
<1>8. ASSUME NEW w \in Workers, CompiledWhole(w) PROVE TypeOK'
  <2>1. <<w, drafts[w] + 1>> \in Sketches
    BY <1>8 DEF CompiledWhole, IInv, DraftInv, TypeOK, Sketches
  <2>2. shown' \in Records
    <3>1. SketchShown(w) \in Records /\ VerifyShown.phase \in {"proving", "verifying"}
      BY <2>1, ShownTypes DEF IInv, TypeOK
    <3>2. shown' = SketchShown(w) \/ shown' = [SketchShown(w) EXCEPT !.phase = VerifyShown.phase]
      BY <1>8 DEF CompiledWhole
    <3> QED
      BY <3>1, <3>2 DEF Records
  <2>3. tokens' \in [Workers -> 0..MostTokens]
    BY <1>8 DEF CompiledWhole, Charged, MostTokens, IInv, TypeOK
  <2>4. drafts' \in [Workers -> 0..MaxSketches]
    BY <1>8 DEF CompiledWhole, IInv, DraftInv, TypeOK
  <2>5. pc' \in [Workers -> Live \cup {"gone"}]
    BY <1>8 DEF CompiledWhole, Goto, Live, IInv, TypeOK
  <2> QED
    BY <1>8, <2>2, <2>3, <2>4, <2>5 DEF CompiledWhole, IInv, TypeOK, parent
<1>9. ASSUME NEW w \in Workers, Answered(w) PROVE TypeOK'
  BY <1>9 DEF Answered, TypeOK, IInv, Goto, Live, Answers, parent
<1>10. ASSUME NEW w \in Workers, Rejected(w) PROVE TypeOK'
  BY <1>10 DEF Rejected, TypeOK, IInv, Goto, Live, session, parent
<1>11. ASSUME NEW w \in Workers, Verified(w) PROVE TypeOK'
  <2>1. ResultShown(TRUE) \in Records
    BY ShownTypes DEF IInv, TypeOK
  <2>2. Sketch(w) \in Sketches
    BY <1>11 DEF Verified, Sketch, Sketches, IInv, DraftInv, TypeOK
  <2>3. pc' \in [Workers -> Live \cup {"gone"}]
    BY <1>11 DEF Verified, Goto, Live, IInv, TypeOK
  <2> QED
    BY <1>11, <2>1, <2>2, <2>3 DEF Verified, IInv, TypeOK, worker, session, parent
<1>12. ASSUME NEW w \in Workers, NotVerified(w) PROVE TypeOK'
  <2>1. ResultShown(FALSE) \in Records
    BY ShownTypes DEF IInv, TypeOK
  <2>2. tokens' \in [Workers -> 0..MostTokens]
    BY <1>12 DEF NotVerified, Charged, MostTokens, IInv, TypeOK
  <2>3. /\ pc' \in [Workers -> Live \cup {"gone"}]
        /\ rc' \in [Workers -> {"none", "ok", "fail"}]
    BY <1>12 DEF NotVerified, Ends, Goto, Live, IInv, TypeOK
  <2> QED
    BY <1>12, <2>1, <2>2, <2>3 DEF NotVerified, IInv, TypeOK, parent
<1>13. ASSUME NEW w \in Workers, OpensResult(w) PROVE TypeOK'
  BY <1>13 DEF OpensResult, TypeOK, IInv, Goto, Live, session, parent
<1>14. ASSUME NEW w \in Workers, WritesResult(w) PROVE TypeOK'
  <2>1. FoundShown \in Records
    BY ShownTypes DEF IInv, TypeOK
  <2>2. Sketch(w) \in Sketches
    BY <1>14 DEF WritesResult, Sketch, Sketches, IInv, DraftInv, TypeOK
  <2>3. /\ pc' \in [Workers -> Live \cup {"gone"}]
        /\ rc' \in [Workers -> {"none", "ok", "fail"}]
    BY <1>14 DEF WritesResult, Ends, Goto, Live, IInv, TypeOK
  <2>4. rfile' \in [Workers -> Sketches \cup {NoSketch, Torn}]
    BY <1>14, <2>2 DEF WritesResult, IInv, TypeOK
  <2> QED
    BY <1>14, <2>1, <2>3, <2>4 DEF WritesResult, IInv, TypeOK, session, parent
<1>15. ASSUME NEW w \in Workers, WriteFails(w) PROVE TypeOK'
  BY <1>15, ShownTypes DEF WriteFails, TypeOK, IInv, Goto, Ends, Live, session, parent
<1>16. ASSUME NEW w \in Workers, Reports(w) PROVE TypeOK'
  BY <1>16 DEF Reports, TypeOK, IInv, Goto, Live, session, parent
<1>17. ASSUME NEW w \in Workers, Flushes(w) PROVE TypeOK'
  BY <1>17 DEF Flushes, TypeOK, IInv, Live, session, parent
<1>18. ASSUME NEW w \in Workers, Exits(w) PROVE TypeOK'
  BY <1>18 DEF Exits, TypeOK, IInv, Goto, Live, session, parent
<1>19. ASSUME NEW w \in Workers, Expires(w) PROVE TypeOK'
  BY <1>19 DEF Expires, TypeOK, IInv, Goto, Live, session, parent
<1>20. ASSUME NEW w \in Workers, Takes(w) PROVE TypeOK'
  <2>1. Taken' \in SUBSET Workers
    BY DEF Taken
  <2>2. Taken' = Taken \cup {w} /\ w \notin Taken
    BY <1>20 DEF Takes, Taken, IInv, TypeOK
  <2>3. returned' = Cardinality(Taken')
    BY <1>20, <2>2, FS_Subset, FS_AddElement, Taken \in SUBSET Workers DEF Takes, IInv, CountInv, Taken
  <2>4. returned' \in 0..Cardinality(Workers)
    BY <2>1, <2>3, FS_Subset, FS_CardinalityType
  <2>5. report' \in [Workers -> {"none", "queued", "taken"}] /\ code' \in {"none", "ok", "fail"}
    BY <1>20 DEF Takes, IInv, TypeOK
  <2>6. ppc' \in {"waiting", "stopping", "ended"}
    BY <1>20 DEF Takes
  <2> QED
    BY <1>20, <2>4, <2>5, <2>6 DEF Takes, IInv, TypeOK, session
<1>21. ASSUME NEW w \in Workers, Terminates(w) PROVE TypeOK'
  BY <1>21 DEF Terminates, TypeOK, IInv, Goto, Live, session, parent
<1>22. ASSUME ParentEnds PROVE TypeOK'
  BY <1>22 DEF ParentEnds, TypeOK, IInv, Goto, Live, worker, session
<1>25. ASSUME NEW w \in Workers, PassesDead(w) PROVE TypeOK'
  BY <1>25 DEF PassesDead, TypeOK, IInv, Goto, Live, worker, session
<1>23. ASSUME Finish PROVE TypeOK'
  <2>1. verdict' \in [verdict : {"none", "proved", "unproved"}, lean : Sketches \cup {NoSketch}]
    <3>1. CASE \E w \in Results : verdict' = [verdict |-> "proved", lean |-> rfile[w]]
      BY <3>1 DEF Results
    <3>2. CASE verdict' = [verdict |-> "proved", lean |-> shown.result]
      <4>1. shown.result \in Sketches \cup {NoSketch}
        BY DEF IInv, TypeOK, Records
      <4> QED
        BY <3>2, <4>1
    <3>3. CASE verdict' = [verdict |-> "unproved", lean |-> NoSketch]
      BY <3>3
    <3> QED
      BY <1>23, <3>1, <3>2, <3>3 DEF Finish
  <2> QED
    BY <1>23, <2>1 DEF Finish, IInv, TypeOK, worker, session, parent
<1>24. ASSUME UNCHANGED vars PROVE TypeOK'
  BY <1>24 DEF vars, TypeOK, IInv, worker, session, parent
<1> QED
  BY <1>1, <1>2, <1>3, <1>4, <1>5, <1>6, <1>7, <1>8, <1>9, <1>10, <1>11, <1>12, <1>13, <1>14,
     <1>15, <1>16, <1>17, <1>18, <1>19, <1>20, <1>21, <1>22, <1>23, <1>24, <1>25 DEF Next,
     WorkerStep, ParentStep

(* What the drafts' events leave alone. *)
LEMMA ShownKeeps ==
  ASSUME shown \in Records, NEW w \in Workers, NEW c \in 0..Blocks, NEW k \in Nat,
         NEW p \in {"proving", "verifying"}
  PROVE  /\ SketchShown(w).safeverify = shown.safeverify
         /\ ClosedShown(BlocksShown(SketchShown(w), c), k).safeverify = shown.safeverify
         /\ [SketchShown(w) EXCEPT !.phase = p].safeverify = shown.safeverify
         /\ [ClosedShown(BlocksShown(SketchShown(w), c), k) EXCEPT !.phase = p].safeverify
              = shown.safeverify
  BY DEF Records, SketchShown, BlocksShown, ClosedShown

(* One draft's blocks: the total is kept if what is closed was right. *)
LEMMA ShownBlocks ==
  ASSUME shown \in Records, NEW w \in Workers, NEW c \in 0..Blocks, NEW k \in 0..c,
         NEW p \in {"proving", "verifying"},
         shown.total = shown.closed + c, NEW n \in Int, n = c - k
  PROVE  LET s == ClosedShown(BlocksShown(SketchShown(w), c), k)
         IN  /\ s.total = s.closed + n
             /\ [s EXCEPT !.phase = p].total = [s EXCEPT !.phase = p].closed + n
<1>1. shown.total \in 0..Blocks /\ shown.closed \in Nat
  BY DEF Records
<1> DEFINE s == SketchShown(w)
           b == BlocksShown(s, c)
           d == ClosedShown(b, k)
<1>2. s.total = shown.total /\ s.closed = shown.closed
  BY DEF Records, SketchShown
<1>3. ~(c > s.total)
  BY <1>1, <1>2
<1>4. b.total = shown.total /\ b.closed = shown.total - c
  BY <1>2, <1>3 DEF BlocksShown, Records, SketchShown
<1>5. d.total = shown.total /\ d.closed = shown.total - c + k
  <2>1. d.total = b.total /\ d.closed = b.closed + k
    BY DEF ClosedShown, BlocksShown, SketchShown, Records
  <2> QED
    BY <1>4, <2>1
<1>6. [d EXCEPT !.phase = p].total = d.total /\ [d EXCEPT !.phase = p].closed = d.closed
  BY DEF ClosedShown, BlocksShown, SketchShown, Records
<1> HIDE DEF d
<1>7. d.total = d.closed + n /\ [d EXCEPT !.phase = p].total = [d EXCEPT !.phase = p].closed + n
  BY <1>1, <1>5, <1>6
<1> QED
  BY <1>7 DEF d

(* Drafts stay within their bound. *)
LEMMA DraftStep ==
  ASSUME IInv, [Next]_vars
  PROVE  DraftInv'
<1>1. ASSUME NEW w \in Workers, Raises(w) PROVE DraftInv'
  BY <1>1 DEF Raises, IInv, TypeOK, Goto, Ends, session, parent, DraftInv
<1>2. ASSUME NEW w \in Workers, Boot(w) PROVE DraftInv'
  BY <1>2 DEF Boot, IInv, TypeOK, Goto, session, parent, DraftInv
<1>3. ASSUME NEW w \in Workers, Opened(w) PROVE DraftInv'
  BY <1>3 DEF Opened, IInv, TypeOK, Goto, parent, DraftInv
<1>4. ASSUME NEW w \in Workers, GivesUp(w) PROVE DraftInv'
  BY <1>4 DEF GivesUp, IInv, TypeOK, Goto, Ends, parent, DraftInv, NextIter, GoesOn, WithinBudget
<1>5. ASSUME NEW w \in Workers, Receive(w) PROVE DraftInv'
  BY <1>5 DEF Receive, IInv, TypeOK, Goto, parent, DraftInv, NextIter, GoesOn, WithinBudget
<1>6. ASSUME NEW w \in Workers, Unusable(w) PROVE DraftInv'
  BY <1>6 DEF Unusable, IInv, TypeOK, Goto, Ends, parent, DraftInv, NextIter, GoesOn, WithinBudget
<1>7. ASSUME NEW w \in Workers, CompiledBlocks(w) PROVE DraftInv'
  BY <1>7 DEF CompiledBlocks, IInv, TypeOK, Goto, parent, DraftInv
<1>8. ASSUME NEW w \in Workers, CompiledWhole(w) PROVE DraftInv'
  BY <1>8 DEF CompiledWhole, IInv, TypeOK, Goto, parent, DraftInv
<1>9. ASSUME NEW w \in Workers, Answered(w) PROVE DraftInv'
  BY <1>9 DEF Answered, IInv, TypeOK, Goto, parent, DraftInv
<1>10. ASSUME NEW w \in Workers, Rejected(w) PROVE DraftInv'
  BY <1>10 DEF Rejected, IInv, TypeOK, Goto, session, parent, DraftInv
<1>11. ASSUME NEW w \in Workers, Verified(w) PROVE DraftInv'
  BY <1>11 DEF Verified, IInv, TypeOK, Goto, session, parent, DraftInv
<1>12. ASSUME NEW w \in Workers, NotVerified(w) PROVE DraftInv'
  BY <1>12 DEF NotVerified, IInv, TypeOK, Goto, Ends, parent, DraftInv
<1>13. ASSUME NEW w \in Workers, OpensResult(w) PROVE DraftInv'
  BY <1>13 DEF OpensResult, IInv, TypeOK, Goto, session, parent, DraftInv
<1>14. ASSUME NEW w \in Workers, WritesResult(w) PROVE DraftInv'
  BY <1>14 DEF WritesResult, IInv, TypeOK, Goto, Ends, session, parent, DraftInv
<1>15. ASSUME NEW w \in Workers, WriteFails(w) PROVE DraftInv'
  BY <1>15 DEF WriteFails, IInv, TypeOK, Goto, Ends, session, parent, DraftInv
<1>16. ASSUME NEW w \in Workers, Reports(w) PROVE DraftInv'
  BY <1>16 DEF Reports, IInv, TypeOK, Goto, session, parent, DraftInv
<1>17. ASSUME NEW w \in Workers, Flushes(w) PROVE DraftInv'
  BY <1>17 DEF Flushes, IInv, TypeOK, session, parent, DraftInv
<1>18. ASSUME NEW w \in Workers, Exits(w) PROVE DraftInv'
  BY <1>18 DEF Exits, IInv, TypeOK, Goto, session, parent, DraftInv
<1>19. ASSUME NEW w \in Workers, Expires(w) PROVE DraftInv'
  BY <1>19 DEF Expires, IInv, TypeOK, Goto, Live, session, parent, DraftInv
<1>20. ASSUME NEW w \in Workers, Takes(w) PROVE DraftInv'
  BY <1>20 DEF Takes, IInv, TypeOK, session, DraftInv
<1>21. ASSUME NEW w \in Workers, Terminates(w) PROVE DraftInv'
  BY <1>21 DEF Terminates, IInv, TypeOK, Goto, Live, session, parent, DraftInv
<1>22. ASSUME ParentEnds PROVE DraftInv'
  BY <1>22 DEF ParentEnds, IInv, TypeOK, Goto, worker, session, DraftInv
<1>25. ASSUME NEW w \in Workers, PassesDead(w) PROVE DraftInv'
  BY <1>25 DEF PassesDead, IInv, TypeOK, Goto, worker, session, DraftInv
<1>23. ASSUME Finish PROVE DraftInv'
  BY <1>23 DEF Finish, IInv, TypeOK, worker, session, parent, DraftInv
<1>24. ASSUME UNCHANGED vars PROVE DraftInv'
  BY <1>24 DEF vars, IInv, TypeOK, worker, session, parent, DraftInv
<1> QED
  BY <1>1, <1>2, <1>3, <1>4, <1>5, <1>6, <1>7, <1>8, <1>9, <1>10, <1>11, <1>12, <1>13, <1>14,
     <1>15, <1>16, <1>17, <1>18, <1>19, <1>20, <1>21, <1>22, <1>23, <1>24, <1>25 DEF Next,
     WorkerStep, ParentStep

(* A report has a result behind it. *)
LEMMA RcStep ==
  ASSUME IInv, [Next]_vars
  PROVE  RcInv'
<1>1. ASSUME NEW w \in Workers, Raises(w) PROVE RcInv'
  BY <1>1 DEF Raises, IInv, TypeOK, Goto, Ends, Live, session, parent, RcInv
<1>2. ASSUME NEW w \in Workers, Boot(w) PROVE RcInv'
  BY <1>2 DEF Boot, IInv, TypeOK, Goto, Live, session, parent, RcInv
<1>3. ASSUME NEW w \in Workers, Opened(w) PROVE RcInv'
  BY <1>3 DEF Opened, IInv, TypeOK, Goto, Live, parent, RcInv
<1>4. ASSUME NEW w \in Workers, GivesUp(w) PROVE RcInv'
  BY <1>4 DEF GivesUp, IInv, TypeOK, Goto, Ends, Live, parent, RcInv, NextIter, GoesOn,
     WithinBudget
<1>5. ASSUME NEW w \in Workers, Receive(w) PROVE RcInv'
  BY <1>5 DEF Receive, IInv, TypeOK, Goto, Live, parent, RcInv, NextIter, GoesOn, WithinBudget
<1>6. ASSUME NEW w \in Workers, Unusable(w) PROVE RcInv'
  BY <1>6 DEF Unusable, IInv, TypeOK, Goto, Ends, Live, parent, RcInv, NextIter, GoesOn,
     WithinBudget
<1>7. ASSUME NEW w \in Workers, CompiledBlocks(w) PROVE RcInv'
  BY <1>7 DEF CompiledBlocks, IInv, TypeOK, Goto, Live, parent, RcInv
<1>8. ASSUME NEW w \in Workers, CompiledWhole(w) PROVE RcInv'
  BY <1>8 DEF CompiledWhole, IInv, TypeOK, Goto, Live, parent, RcInv
<1>9. ASSUME NEW w \in Workers, Answered(w) PROVE RcInv'
  BY <1>9 DEF Answered, IInv, TypeOK, Goto, Live, parent, RcInv
<1>10. ASSUME NEW w \in Workers, Rejected(w) PROVE RcInv'
  BY <1>10 DEF Rejected, IInv, TypeOK, Goto, Live, session, parent, RcInv
<1>11. ASSUME NEW w \in Workers, Verified(w) PROVE RcInv'
  BY <1>11 DEF Verified, IInv, TypeOK, Goto, Live, session, parent, RcInv
<1>12. ASSUME NEW w \in Workers, NotVerified(w) PROVE RcInv'
  BY <1>12 DEF NotVerified, IInv, TypeOK, Goto, Ends, Live, parent, RcInv
<1>13. ASSUME NEW w \in Workers, OpensResult(w) PROVE RcInv'
  BY <1>13 DEF OpensResult, IInv, TypeOK, Goto, Live, session, parent, RcInv
<1>14. ASSUME NEW w \in Workers, WritesResult(w) PROVE RcInv'
  BY <1>14 DEF WritesResult, IInv, TypeOK, Goto, Ends, Live, session, parent, RcInv
<1>15. ASSUME NEW w \in Workers, WriteFails(w) PROVE RcInv'
  BY <1>15 DEF WriteFails, IInv, TypeOK, Goto, Ends, Live, session, parent, RcInv
<1>16. ASSUME NEW w \in Workers, Reports(w) PROVE RcInv'
  BY <1>16 DEF Reports, IInv, TypeOK, Goto, Live, session, parent, RcInv
<1>17. ASSUME NEW w \in Workers, Flushes(w) PROVE RcInv'
  BY <1>17 DEF Flushes, IInv, TypeOK, Live, session, parent, RcInv
<1>18. ASSUME NEW w \in Workers, Exits(w) PROVE RcInv'
  BY <1>18 DEF Exits, IInv, TypeOK, Goto, Live, session, parent, RcInv
<1>19. ASSUME NEW w \in Workers, Expires(w) PROVE RcInv'
  BY <1>19 DEF Expires, IInv, TypeOK, Goto, Live, session, parent, RcInv
<1>20. ASSUME NEW w \in Workers, Takes(w) PROVE RcInv'
  BY <1>20 DEF Takes, IInv, TypeOK, Live, session, RcInv
<1>21. ASSUME NEW w \in Workers, Terminates(w) PROVE RcInv'
  BY <1>21 DEF Terminates, IInv, TypeOK, Goto, Live, session, parent, RcInv
<1>22. ASSUME ParentEnds PROVE RcInv'
  BY <1>22 DEF ParentEnds, IInv, TypeOK, Goto, Live, worker, session, RcInv
<1>25. ASSUME NEW w \in Workers, PassesDead(w) PROVE RcInv'
  BY <1>25 DEF PassesDead, IInv, TypeOK, Goto, Live, worker, session, RcInv
<1>23. ASSUME Finish PROVE RcInv'
  BY <1>23 DEF Finish, IInv, TypeOK, Live, worker, session, parent, RcInv
<1>24. ASSUME UNCHANGED vars PROVE RcInv'
  BY <1>24 DEF vars, IInv, TypeOK, worker, session, parent, RcInv
<1> QED
  BY <1>1, <1>2, <1>3, <1>4, <1>5, <1>6, <1>7, <1>8, <1>9, <1>10, <1>11, <1>12, <1>13, <1>14,
     <1>15, <1>16, <1>17, <1>18, <1>19, <1>20, <1>21, <1>22, <1>23, <1>24, <1>25 DEF Next,
     WorkerStep, ParentStep

(* The counter is the number of reports taken. *)
LEMMA CountStep ==
  ASSUME IInv, [Next]_vars
  PROVE  CountInv'
<1>1. ASSUME NEW w \in Workers, Raises(w) PROVE CountInv'
  BY <1>1 DEF Raises, IInv, TypeOK, CountInv, Taken, session, parent
<1>2. ASSUME NEW w \in Workers, Boot(w) PROVE CountInv'
  BY <1>2 DEF Boot, IInv, TypeOK, CountInv, Taken, session, parent
<1>3. ASSUME NEW w \in Workers, Opened(w) PROVE CountInv'
  BY <1>3 DEF Opened, IInv, TypeOK, CountInv, Taken, parent
<1>4. ASSUME NEW w \in Workers, GivesUp(w) PROVE CountInv'
  BY <1>4 DEF GivesUp, IInv, TypeOK, CountInv, Taken, parent
<1>5. ASSUME NEW w \in Workers, Receive(w) PROVE CountInv'
  BY <1>5 DEF Receive, IInv, TypeOK, CountInv, Taken, parent
<1>6. ASSUME NEW w \in Workers, Unusable(w) PROVE CountInv'
  BY <1>6 DEF Unusable, IInv, TypeOK, CountInv, Taken, parent
<1>7. ASSUME NEW w \in Workers, CompiledBlocks(w) PROVE CountInv'
  BY <1>7 DEF CompiledBlocks, IInv, TypeOK, CountInv, Taken, parent
<1>8. ASSUME NEW w \in Workers, CompiledWhole(w) PROVE CountInv'
  BY <1>8 DEF CompiledWhole, IInv, TypeOK, CountInv, Taken, parent
<1>9. ASSUME NEW w \in Workers, Answered(w) PROVE CountInv'
  BY <1>9 DEF Answered, IInv, TypeOK, CountInv, Taken, parent
<1>10. ASSUME NEW w \in Workers, Rejected(w) PROVE CountInv'
  BY <1>10 DEF Rejected, IInv, TypeOK, CountInv, Taken, session, parent
<1>11. ASSUME NEW w \in Workers, Verified(w) PROVE CountInv'
  BY <1>11 DEF Verified, IInv, TypeOK, CountInv, Taken, session, parent
<1>12. ASSUME NEW w \in Workers, NotVerified(w) PROVE CountInv'
  BY <1>12 DEF NotVerified, IInv, TypeOK, CountInv, Taken, parent
<1>13. ASSUME NEW w \in Workers, OpensResult(w) PROVE CountInv'
  BY <1>13 DEF OpensResult, IInv, TypeOK, CountInv, Taken, session, parent
<1>14. ASSUME NEW w \in Workers, WritesResult(w) PROVE CountInv'
  BY <1>14 DEF WritesResult, IInv, TypeOK, CountInv, Taken, session, parent
<1>15. ASSUME NEW w \in Workers, WriteFails(w) PROVE CountInv'
  BY <1>15 DEF WriteFails, IInv, TypeOK, CountInv, Taken, session, parent
<1>16. ASSUME NEW w \in Workers, Reports(w) PROVE CountInv'
  BY <1>16 DEF Reports, IInv, TypeOK, CountInv, Taken, session, parent
<1>17. ASSUME NEW w \in Workers, Flushes(w) PROVE CountInv'
  <2>1. Taken' = Taken
    BY <1>17 DEF Flushes, Taken, IInv, TypeOK
  <2> QED
    BY <1>17, <2>1 DEF Flushes, IInv, CountInv, parent
<1>18. ASSUME NEW w \in Workers, Exits(w) PROVE CountInv'
  BY <1>18 DEF Exits, IInv, TypeOK, CountInv, Taken, session, parent
<1>19. ASSUME NEW w \in Workers, Expires(w) PROVE CountInv'
  BY <1>19 DEF Expires, IInv, TypeOK, CountInv, Taken, session, parent
<1>20. ASSUME NEW w \in Workers, Takes(w) PROVE CountInv'
  <2>1. Taken \in SUBSET Workers /\ w \notin Taken /\ Taken' = Taken \cup {w}
    BY <1>20 DEF Takes, Taken, IInv, TypeOK
  <2>2. Cardinality(Taken') = Cardinality(Taken) + 1
    BY <2>1, FS_Subset, FS_AddElement
  <2> QED
    BY <1>20, <2>2 DEF Takes, IInv, CountInv
<1>21. ASSUME NEW w \in Workers, Terminates(w) PROVE CountInv'
  BY <1>21 DEF Terminates, IInv, TypeOK, CountInv, Taken, session, parent
<1>22. ASSUME ParentEnds PROVE CountInv'
  BY <1>22 DEF ParentEnds, IInv, TypeOK, CountInv, Taken, worker, session
<1>25. ASSUME NEW w \in Workers, PassesDead(w) PROVE CountInv'
  BY <1>25 DEF PassesDead, IInv, TypeOK, CountInv, Taken, worker, session
<1>23. ASSUME Finish PROVE CountInv'
  BY <1>23 DEF Finish, IInv, TypeOK, CountInv, Taken, worker, session, parent
<1>24. ASSUME UNCHANGED vars PROVE CountInv'
  BY <1>24 DEF vars, IInv, TypeOK, CountInv, Taken, worker, session, parent
<1> QED
  BY <1>1, <1>2, <1>3, <1>4, <1>5, <1>6, <1>7, <1>8, <1>9, <1>10, <1>11, <1>12, <1>13, <1>14,
     <1>15, <1>16, <1>17, <1>18, <1>19, <1>20, <1>21, <1>22, <1>23, <1>24, <1>25 DEF Next,
     WorkerStep, ParentStep

(* What the parent knows stays true. *)
LEMMA ParentStepInv ==
  ASSUME IInv, [Next]_vars
  PROVE  ParentInv'
<1>1. ASSUME NEW w \in Workers, Raises(w) PROVE ParentInv'
  BY <1>1 DEF Raises, IInv, TypeOK, Goto, Ends, Live, session, parent, ParentInv, RcInv, Taken
<1>2. ASSUME NEW w \in Workers, Boot(w) PROVE ParentInv'
  BY <1>2 DEF Boot, IInv, TypeOK, Goto, Live, session, parent, ParentInv, RcInv, Taken
<1>3. ASSUME NEW w \in Workers, Opened(w) PROVE ParentInv'
  BY <1>3 DEF Opened, IInv, TypeOK, Goto, Live, parent, ParentInv, RcInv, Taken
<1>4. ASSUME NEW w \in Workers, GivesUp(w) PROVE ParentInv'
  BY <1>4 DEF GivesUp, IInv, TypeOK, Goto, Ends, Live, parent, ParentInv, RcInv, Taken, NextIter,
     GoesOn, WithinBudget
<1>5. ASSUME NEW w \in Workers, Receive(w) PROVE ParentInv'
  BY <1>5 DEF Receive, IInv, TypeOK, Goto, Live, parent, ParentInv, RcInv, Taken, NextIter,
     GoesOn, WithinBudget
<1>6. ASSUME NEW w \in Workers, Unusable(w) PROVE ParentInv'
  BY <1>6 DEF Unusable, IInv, TypeOK, Goto, Ends, Live, parent, ParentInv, RcInv, Taken, NextIter,
     GoesOn, WithinBudget
<1>7. ASSUME NEW w \in Workers, CompiledBlocks(w) PROVE ParentInv'
  BY <1>7 DEF CompiledBlocks, IInv, TypeOK, Goto, Live, parent, ParentInv, RcInv, Taken
<1>8. ASSUME NEW w \in Workers, CompiledWhole(w) PROVE ParentInv'
  BY <1>8 DEF CompiledWhole, IInv, TypeOK, Goto, Live, parent, ParentInv, RcInv, Taken
<1>9. ASSUME NEW w \in Workers, Answered(w) PROVE ParentInv'
  BY <1>9 DEF Answered, IInv, TypeOK, Goto, Live, parent, ParentInv, RcInv, Taken
<1>10. ASSUME NEW w \in Workers, Rejected(w) PROVE ParentInv'
  BY <1>10 DEF Rejected, IInv, TypeOK, Goto, Live, session, parent, ParentInv, RcInv, Taken
<1>11. ASSUME NEW w \in Workers, Verified(w) PROVE ParentInv'
  BY <1>11 DEF Verified, IInv, TypeOK, Goto, Live, session, parent, ParentInv, RcInv, Taken
<1>12. ASSUME NEW w \in Workers, NotVerified(w) PROVE ParentInv'
  BY <1>12 DEF NotVerified, IInv, TypeOK, Goto, Ends, Live, parent, ParentInv, RcInv, Taken
<1>13. ASSUME NEW w \in Workers, OpensResult(w) PROVE ParentInv'
  BY <1>13 DEF OpensResult, IInv, TypeOK, Goto, Live, session, parent, ParentInv, RcInv, Taken
<1>14. ASSUME NEW w \in Workers, WritesResult(w) PROVE ParentInv'
  BY <1>14 DEF WritesResult, IInv, TypeOK, Goto, Ends, Live, session, parent, ParentInv, RcInv,
     Taken
<1>15. ASSUME NEW w \in Workers, WriteFails(w) PROVE ParentInv'
  BY <1>15 DEF WriteFails, IInv, TypeOK, Goto, Ends, Live, session, parent, ParentInv, RcInv,
     Taken
<1>16. ASSUME NEW w \in Workers, Reports(w) PROVE ParentInv'
  BY <1>16 DEF Reports, IInv, TypeOK, Goto, Live, session, parent, ParentInv, RcInv, Taken
<1>17. ASSUME NEW w \in Workers, Flushes(w) PROVE ParentInv'
  BY <1>17 DEF Flushes, IInv, TypeOK, Live, session, parent, ParentInv, RcInv, Taken
<1>18. ASSUME NEW w \in Workers, Exits(w) PROVE ParentInv'
  BY <1>18 DEF Exits, IInv, TypeOK, Goto, Live, session, parent, ParentInv, RcInv, Taken
<1>19. ASSUME NEW w \in Workers, Expires(w) PROVE ParentInv'
  BY <1>19 DEF Expires, IInv, TypeOK, Goto, Live, session, parent, ParentInv, RcInv, Taken
<1>20. ASSUME NEW w \in Workers, Takes(w) PROVE ParentInv'
  <2>1. Taken \in SUBSET Workers /\ w \notin Taken /\ Taken' = Taken \cup {w}
    BY <1>20 DEF Takes, Taken, IInv, TypeOK
  <2>2. CASE rc[w] = "ok"
    BY <1>20, <2>2 DEF Takes, ParentInv
  <2>3. CASE rc[w] # "ok"
    <3>1. rc[w] = "fail" /\ rc' = rc /\ \A v \in Taken' : rc[v] = "fail"
      BY <1>20, <2>1, <2>3 DEF Takes, IInv, TypeOK, RcInv, ParentInv
    <3>2. returned' = Cardinality(Taken')
      BY <1>20, <2>1, FS_Subset, FS_AddElement DEF Takes, IInv, CountInv
    <3>3. CASE returned' = Cardinality(Workers)
      <4>1. Taken' = Workers
        BY <2>1, <3>2, <3>3, FS_Subset
      <4>2. \A v \in Workers : report'[v] = "taken"
        BY <4>1 DEF Taken
      <4> QED
        BY <1>20, <2>3, <3>1, <3>3, <4>1, <4>2 DEF Takes, ParentInv
    <3>4. CASE returned' # Cardinality(Workers)
      BY <1>20, <2>3, <3>1, <3>4 DEF Takes, ParentInv
    <3> QED
      BY <3>3, <3>4
  <2> QED
    BY <2>2, <2>3
<1>21. ASSUME NEW w \in Workers, Terminates(w) PROVE ParentInv'
  BY <1>21 DEF Terminates, IInv, TypeOK, Goto, Live, session, parent, ParentInv, RcInv, Taken
<1>22. ASSUME ParentEnds PROVE ParentInv'
  BY <1>22 DEF ParentEnds, IInv, TypeOK, Goto, Live, worker, session, ParentInv, RcInv, Taken
<1>25. ASSUME NEW w \in Workers, PassesDead(w) PROVE ParentInv'
  BY <1>25 DEF PassesDead, IInv, TypeOK, Goto, Live, worker, session, ParentInv, RcInv, Taken
<1>23. ASSUME Finish PROVE ParentInv'
  BY <1>23 DEF Finish, IInv, TypeOK, Live, worker, session, parent, ParentInv, RcInv, Taken
<1>24. ASSUME UNCHANGED vars PROVE ParentInv'
  BY <1>24 DEF vars, IInv, TypeOK, worker, session, parent, ParentInv, Taken
<1> QED
  BY <1>1, <1>2, <1>3, <1>4, <1>5, <1>6, <1>7, <1>8, <1>9, <1>10, <1>11, <1>12, <1>13, <1>14,
     <1>15, <1>16, <1>17, <1>18, <1>19, <1>20, <1>21, <1>22, <1>23, <1>24, <1>25 DEF Next,
     WorkerStep, ParentStep

(* Only what was verified is written. *)
LEMMA VerifyStep ==
  ASSUME IInv, [Next]_vars
  PROVE  VerifyInv'
<1>1. ASSUME NEW w \in Workers, Raises(w) PROVE VerifyInv'
  BY <1>1 DEF Raises, IInv, TypeOK, Goto, Ends, session, parent, VerifyInv, Sketch, DraftInv
<1>2. ASSUME NEW w \in Workers, Boot(w) PROVE VerifyInv'
  BY <1>2 DEF Boot, IInv, TypeOK, Goto, session, parent, VerifyInv, Sketch, DraftInv
<1>3. ASSUME NEW w \in Workers, Opened(w) PROVE VerifyInv'
  BY <1>3 DEF Opened, IInv, TypeOK, Goto, parent, VerifyInv, Sketch, DraftInv
<1>4. ASSUME NEW w \in Workers, GivesUp(w) PROVE VerifyInv'
  BY <1>4 DEF GivesUp, IInv, TypeOK, Goto, Ends, parent, VerifyInv, Sketch, DraftInv, NextIter,
     GoesOn, WithinBudget
<1>5. ASSUME NEW w \in Workers, Receive(w) PROVE VerifyInv'
  BY <1>5 DEF Receive, IInv, TypeOK, Goto, parent, VerifyInv, Sketch, DraftInv, NextIter, GoesOn,
     WithinBudget
<1>6. ASSUME NEW w \in Workers, Unusable(w) PROVE VerifyInv'
  BY <1>6 DEF Unusable, IInv, TypeOK, Goto, Ends, parent, VerifyInv, Sketch, DraftInv, NextIter,
     GoesOn, WithinBudget
<1>7. ASSUME NEW w \in Workers, CompiledBlocks(w) PROVE VerifyInv'
  <2>1. /\ \A v \in Workers : pc'[v] \in {"write", "dump"} => v # w /\ pc[v] \in {"write", "dump"}
        /\ \A v \in Workers : v # w => Sketch(v)' = Sketch(v)
    BY <1>7 DEF CompiledBlocks, Goto, Sketch, IInv, TypeOK
  <2>2. shown'.safeverify = shown.safeverify
    <3>1. PICK k \in 0..open[w] :
            \/ shown' = [ClosedShown(BlocksShown(SketchShown(w), open[w]), k)
                          EXCEPT !.phase = VerifyShown.phase]
            \/ shown' = ClosedShown(BlocksShown(SketchShown(w), open[w]), k)
      BY <1>7 DEF CompiledBlocks
    <3>2. shown \in Records /\ open[w] \in 0..Blocks /\ k \in Nat
      BY DEF IInv, TypeOK
    <3>3. VerifyShown.phase \in {"proving", "verifying"}
      BY <3>2, ShownTypes
    <3> DEFINE d == ClosedShown(BlocksShown(SketchShown(w), open[w]), k)
    <3>4. /\ d.safeverify = shown.safeverify
          /\ [d EXCEPT !.phase = VerifyShown.phase].safeverify = shown.safeverify
      BY <3>2, <3>3, ShownKeeps
    <3> HIDE DEF d
    <3>5. shown' = [d EXCEPT !.phase = VerifyShown.phase] \/ shown' = d
      BY <3>1 DEF d
    <3> QED
      BY <3>4, <3>5
  <2> QED
    BY <1>7, <2>1, <2>2 DEF CompiledBlocks, IInv, VerifyInv
<1>8. ASSUME NEW w \in Workers, CompiledWhole(w) PROVE VerifyInv'
  <2>1. /\ \A v \in Workers : pc'[v] \in {"write", "dump"} => v # w /\ pc[v] \in {"write", "dump"}
        /\ \A v \in Workers : v # w => Sketch(v)' = Sketch(v)
    BY <1>8 DEF CompiledWhole, Goto, Sketch, IInv, TypeOK
  <2>2. shown'.safeverify = shown.safeverify
    <3>1. \/ shown' = [SketchShown(w) EXCEPT !.phase = VerifyShown.phase]
          \/ shown' = SketchShown(w)
      BY <1>8 DEF CompiledWhole
    <3>2. shown \in Records /\ VerifyShown.phase \in {"proving", "verifying"}
      BY ShownTypes DEF IInv, TypeOK
    <3>3. 0 \in 0..Blocks /\ 0 \in Nat
      OBVIOUS
    <3> QED
      BY <3>1, <3>2, <3>3, ShownKeeps
  <2> QED
    BY <1>8, <2>1, <2>2 DEF CompiledWhole, IInv, VerifyInv
<1>9. ASSUME NEW w \in Workers, Answered(w) PROVE VerifyInv'
  BY <1>9 DEF Answered, IInv, TypeOK, Goto, parent, VerifyInv, Sketch, DraftInv
<1>10. ASSUME NEW w \in Workers, Rejected(w) PROVE VerifyInv'
  BY <1>10 DEF Rejected, IInv, TypeOK, Goto, session, parent, VerifyInv, Sketch, DraftInv
<1>11. ASSUME NEW w \in Workers, Verified(w) PROVE VerifyInv'
  BY <1>11 DEF Verified, IInv, TypeOK, Goto, session, parent, VerifyInv, Sketch, DraftInv,
     ResultShown
<1>12. ASSUME NEW w \in Workers, NotVerified(w) PROVE VerifyInv'
  BY <1>12 DEF NotVerified, IInv, TypeOK, Goto, Ends, parent, VerifyInv, Sketch, DraftInv,
     ResultShown
<1>13. ASSUME NEW w \in Workers, OpensResult(w) PROVE VerifyInv'
  BY <1>13 DEF OpensResult, IInv, TypeOK, Goto, session, parent, VerifyInv, Sketch, DraftInv
<1>14. ASSUME NEW w \in Workers, WritesResult(w) PROVE VerifyInv'
  BY <1>14 DEF WritesResult, IInv, TypeOK, Goto, Ends, session, parent, VerifyInv, Sketch,
     DraftInv, FoundShown, Sketches
<1>15. ASSUME NEW w \in Workers, WriteFails(w) PROVE VerifyInv'
  BY <1>15 DEF WriteFails, IInv, TypeOK, Goto, Ends, session, parent, VerifyInv, Sketch, DraftInv,
     FoundShown
<1>16. ASSUME NEW w \in Workers, Reports(w) PROVE VerifyInv'
  BY <1>16 DEF Reports, IInv, TypeOK, Goto, session, parent, VerifyInv, Sketch, DraftInv
<1>17. ASSUME NEW w \in Workers, Flushes(w) PROVE VerifyInv'
  BY <1>17 DEF Flushes, IInv, TypeOK, session, parent, VerifyInv, Sketch, DraftInv
<1>18. ASSUME NEW w \in Workers, Exits(w) PROVE VerifyInv'
  BY <1>18 DEF Exits, IInv, TypeOK, Goto, session, parent, VerifyInv, Sketch, DraftInv
<1>19. ASSUME NEW w \in Workers, Expires(w) PROVE VerifyInv'
  BY <1>19 DEF Expires, IInv, TypeOK, Goto, Live, session, parent, VerifyInv, Sketch, DraftInv
<1>20. ASSUME NEW w \in Workers, Takes(w) PROVE VerifyInv'
  BY <1>20 DEF Takes, IInv, TypeOK, session, VerifyInv, Sketch, DraftInv
<1>21. ASSUME NEW w \in Workers, Terminates(w) PROVE VerifyInv'
  BY <1>21 DEF Terminates, IInv, TypeOK, Goto, Live, session, parent, VerifyInv, Sketch, DraftInv
<1>22. ASSUME ParentEnds PROVE VerifyInv'
  BY <1>22 DEF ParentEnds, IInv, TypeOK, Goto, worker, session, VerifyInv, Sketch, DraftInv
<1>25. ASSUME NEW w \in Workers, PassesDead(w) PROVE VerifyInv'
  BY <1>25 DEF PassesDead, IInv, TypeOK, Goto, worker, session, VerifyInv, Sketch, DraftInv
<1>23. ASSUME Finish PROVE VerifyInv'
  BY <1>23 DEF Finish, IInv, TypeOK, worker, session, parent, VerifyInv, Sketch, DraftInv
<1>24. ASSUME UNCHANGED vars PROVE VerifyInv'
  BY <1>24 DEF vars, IInv, TypeOK, worker, session, parent, VerifyInv, Sketch
<1> QED
  BY <1>1, <1>2, <1>3, <1>4, <1>5, <1>6, <1>7, <1>8, <1>9, <1>10, <1>11, <1>12, <1>13, <1>14,
     <1>15, <1>16, <1>17, <1>18, <1>19, <1>20, <1>21, <1>22, <1>23, <1>24, <1>25 DEF Next,
     WorkerStep, ParentStep

(* The verdict of the run that ended. *)
LEMMA VerdictStep ==
  ASSUME IInv, [Next]_vars
  PROVE  VerdictInv'
<1>1. ASSUME NEW w \in Workers, Raises(w) PROVE VerdictInv'
  BY <1>1 DEF Raises, IInv, TypeOK, Goto, Ends, session, parent, VerdictInv, ProvedIsShown,
     Results, ParentInv
<1>2. ASSUME NEW w \in Workers, Boot(w) PROVE VerdictInv'
  BY <1>2 DEF Boot, IInv, TypeOK, Goto, session, parent, VerdictInv, ProvedIsShown, Results,
     ParentInv
<1>3. ASSUME NEW w \in Workers, Opened(w) PROVE VerdictInv'
  BY <1>3 DEF Opened, IInv, TypeOK, Goto, parent, VerdictInv, ProvedIsShown, Results, ParentInv
<1>4. ASSUME NEW w \in Workers, GivesUp(w) PROVE VerdictInv'
  BY <1>4 DEF GivesUp, IInv, TypeOK, Goto, Ends, parent, VerdictInv, ProvedIsShown, Results,
     ParentInv, NextIter, GoesOn, WithinBudget
<1>5. ASSUME NEW w \in Workers, Receive(w) PROVE VerdictInv'
  BY <1>5 DEF Receive, IInv, TypeOK, Goto, parent, VerdictInv, ProvedIsShown, Results, ParentInv,
     NextIter, GoesOn, WithinBudget
<1>6. ASSUME NEW w \in Workers, Unusable(w) PROVE VerdictInv'
  BY <1>6 DEF Unusable, IInv, TypeOK, Goto, Ends, parent, VerdictInv, ProvedIsShown, Results,
     ParentInv, NextIter, GoesOn, WithinBudget
<1>7. ASSUME NEW w \in Workers, CompiledBlocks(w) PROVE VerdictInv'
  BY <1>7 DEF CompiledBlocks, IInv, TypeOK, Goto, parent, VerdictInv, ProvedIsShown, Results,
     ParentInv
<1>8. ASSUME NEW w \in Workers, CompiledWhole(w) PROVE VerdictInv'
  BY <1>8 DEF CompiledWhole, IInv, TypeOK, Goto, parent, VerdictInv, ProvedIsShown, Results,
     ParentInv
<1>9. ASSUME NEW w \in Workers, Answered(w) PROVE VerdictInv'
  BY <1>9 DEF Answered, IInv, TypeOK, Goto, parent, VerdictInv, ProvedIsShown, Results, ParentInv
<1>10. ASSUME NEW w \in Workers, Rejected(w) PROVE VerdictInv'
  BY <1>10 DEF Rejected, IInv, TypeOK, Goto, session, parent, VerdictInv, ProvedIsShown, Results,
     ParentInv
<1>11. ASSUME NEW w \in Workers, Verified(w) PROVE VerdictInv'
  BY <1>11 DEF Verified, IInv, TypeOK, Goto, session, parent, VerdictInv, ProvedIsShown, Results,
     ParentInv
<1>12. ASSUME NEW w \in Workers, NotVerified(w) PROVE VerdictInv'
  BY <1>12 DEF NotVerified, IInv, TypeOK, Goto, Ends, parent, VerdictInv, ProvedIsShown, Results,
     ParentInv
<1>13. ASSUME NEW w \in Workers, OpensResult(w) PROVE VerdictInv'
  <2>1. ppc # "ended"
    BY <1>13 DEF OpensResult, IInv, ParentInv, RcInv
  <2>2. verdict.verdict = "none" /\ verdict' = verdict
    BY <1>13, <2>1 DEF OpensResult, IInv, TypeOK, VerdictInv
  <2> QED
    BY <2>2 DEF VerdictInv, ProvedIsShown
<1>14. ASSUME NEW w \in Workers, WritesResult(w) PROVE VerdictInv'
  <2>1. ppc # "ended"
    BY <1>14 DEF WritesResult, IInv, ParentInv, RcInv
  <2>2. verdict.verdict = "none" /\ verdict' = verdict
    BY <1>14, <2>1 DEF WritesResult, IInv, TypeOK, VerdictInv
  <2> QED
    BY <2>2 DEF VerdictInv, ProvedIsShown
<1>15. ASSUME NEW w \in Workers, WriteFails(w) PROVE VerdictInv'
  BY <1>15 DEF WriteFails, IInv, TypeOK, Goto, Ends, session, parent, VerdictInv, ProvedIsShown,
     Results, ParentInv
<1>16. ASSUME NEW w \in Workers, Reports(w) PROVE VerdictInv'
  BY <1>16 DEF Reports, IInv, TypeOK, Goto, session, parent, VerdictInv, ProvedIsShown, Results,
     ParentInv
<1>17. ASSUME NEW w \in Workers, Flushes(w) PROVE VerdictInv'
  BY <1>17 DEF Flushes, IInv, TypeOK, session, parent, VerdictInv, ProvedIsShown, Results,
     ParentInv
<1>18. ASSUME NEW w \in Workers, Exits(w) PROVE VerdictInv'
  BY <1>18 DEF Exits, IInv, TypeOK, Goto, session, parent, VerdictInv, ProvedIsShown, Results,
     ParentInv
<1>19. ASSUME NEW w \in Workers, Expires(w) PROVE VerdictInv'
  BY <1>19 DEF Expires, IInv, TypeOK, Goto, Live, session, parent, VerdictInv, ProvedIsShown,
     Results, ParentInv
<1>20. ASSUME NEW w \in Workers, Takes(w) PROVE VerdictInv'
  BY <1>20 DEF Takes, IInv, TypeOK, session, VerdictInv, ProvedIsShown, Results, ParentInv
<1>21. ASSUME NEW w \in Workers, Terminates(w) PROVE VerdictInv'
  BY <1>21 DEF Terminates, IInv, TypeOK, Goto, Live, session, parent, VerdictInv, ProvedIsShown,
     Results, ParentInv
<1>22. ASSUME ParentEnds PROVE VerdictInv'
  BY <1>22 DEF ParentEnds, IInv, TypeOK, Goto, worker, session, VerdictInv, ProvedIsShown,
     Results, ParentInv
<1>25. ASSUME NEW w \in Workers, PassesDead(w) PROVE VerdictInv'
  BY <1>25 DEF PassesDead, IInv, TypeOK, Goto, worker, session, VerdictInv, ProvedIsShown,
     Results, ParentInv
<1>23. ASSUME Finish PROVE VerdictInv'
  <2>1. Results' = Results /\ UNCHANGED <<ppc, code, verified>>
    BY <1>23 DEF Finish, Results, worker, parent
  <2>2. CASE \E w \in Results : verdict' = [verdict |-> "proved", lean |-> rfile[w]]
    <3>1. PICK w \in Results : verdict' = [verdict |-> "proved", lean |-> rfile[w]]
      BY <2>2
    <3>2. rfile[w] \in verified
      BY <3>1 DEF Results, IInv, VerifyInv
    <3> QED
      BY <1>23, <2>1, <3>1, <3>2 DEF Finish, VerdictInv, ProvedIsShown
  <2>3. CASE /\ Results = {} /\ code = "ok" /\ shown.safeverify = "ok"
             /\ verdict' = [verdict |-> "proved", lean |-> shown.result]
    BY <1>23, <2>1, <2>3 DEF Finish, VerdictInv, ProvedIsShown, IInv, VerifyInv
  <2>4. CASE verdict' = [verdict |-> "unproved", lean |-> NoSketch]
    BY <1>23, <2>1, <2>4 DEF Finish, VerdictInv, ProvedIsShown
  <2> QED
    BY <1>23, <2>2, <2>3, <2>4 DEF Finish
<1>24. ASSUME UNCHANGED vars PROVE VerdictInv'
  BY <1>24 DEF vars, IInv, TypeOK, worker, session, parent, VerdictInv, ProvedIsShown, Results,
     ParentInv
<1> QED
  BY <1>1, <1>2, <1>3, <1>4, <1>5, <1>6, <1>7, <1>8, <1>9, <1>10, <1>11, <1>12, <1>13, <1>14,
     <1>15, <1>16, <1>17, <1>18, <1>19, <1>20, <1>21, <1>22, <1>23, <1>24, <1>25 DEF Next,
     WorkerStep, ParentStep

(* The whole-proof script compiles within the budget. *)
LEMMA TokenStep ==
  ASSUME IInv, [Next]_vars
  PROVE  TokenInv'
<1>1. ASSUME NEW w \in Workers, Raises(w) PROVE TokenInv'
  BY <1>1 DEF Raises, IInv, TypeOK, Goto, Ends, session, parent, TokenInv
<1>2. ASSUME NEW w \in Workers, Boot(w) PROVE TokenInv'
  BY <1>2 DEF Boot, IInv, TypeOK, Goto, session, parent, TokenInv
<1>3. ASSUME NEW w \in Workers, Opened(w) PROVE TokenInv'
  BY <1>3 DEF Opened, IInv, TypeOK, Goto, parent, TokenInv
<1>4. ASSUME NEW w \in Workers, GivesUp(w) PROVE TokenInv'
  BY <1>4 DEF GivesUp, IInv, TypeOK, Goto, Ends, parent, TokenInv, NextIter, GoesOn, WithinBudget
<1>5. ASSUME NEW w \in Workers, Receive(w) PROVE TokenInv'
  BY <1>5 DEF Receive, IInv, TypeOK, Goto, parent, TokenInv, NextIter, GoesOn, WithinBudget
<1>6. ASSUME NEW w \in Workers, Unusable(w) PROVE TokenInv'
  BY <1>6 DEF Unusable, IInv, TypeOK, Goto, Ends, parent, TokenInv, NextIter, GoesOn, WithinBudget
<1>7. ASSUME NEW w \in Workers, CompiledBlocks(w) PROVE TokenInv'
  BY <1>7 DEF CompiledBlocks, IInv, TypeOK, Goto, parent, TokenInv, MostTokens, Charged
<1>8. ASSUME NEW w \in Workers, CompiledWhole(w) PROVE TokenInv'
  BY <1>8 DEF CompiledWhole, IInv, TypeOK, Goto, parent, TokenInv, MostTokens, Charged
<1>9. ASSUME NEW w \in Workers, Answered(w) PROVE TokenInv'
  BY <1>9 DEF Answered, IInv, TypeOK, Goto, parent, TokenInv
<1>10. ASSUME NEW w \in Workers, Rejected(w) PROVE TokenInv'
  BY <1>10 DEF Rejected, IInv, TypeOK, Goto, session, parent, TokenInv
<1>11. ASSUME NEW w \in Workers, Verified(w) PROVE TokenInv'
  BY <1>11 DEF Verified, IInv, TypeOK, Goto, session, parent, TokenInv
<1>12. ASSUME NEW w \in Workers, NotVerified(w) PROVE TokenInv'
  BY <1>12 DEF NotVerified, IInv, TypeOK, Goto, Ends, parent, TokenInv, MostTokens, Charged
<1>13. ASSUME NEW w \in Workers, OpensResult(w) PROVE TokenInv'
  BY <1>13 DEF OpensResult, IInv, TypeOK, Goto, session, parent, TokenInv
<1>14. ASSUME NEW w \in Workers, WritesResult(w) PROVE TokenInv'
  BY <1>14 DEF WritesResult, IInv, TypeOK, Goto, Ends, session, parent, TokenInv
<1>15. ASSUME NEW w \in Workers, WriteFails(w) PROVE TokenInv'
  BY <1>15 DEF WriteFails, IInv, TypeOK, Goto, Ends, session, parent, TokenInv
<1>16. ASSUME NEW w \in Workers, Reports(w) PROVE TokenInv'
  BY <1>16 DEF Reports, IInv, TypeOK, Goto, session, parent, TokenInv
<1>17. ASSUME NEW w \in Workers, Flushes(w) PROVE TokenInv'
  BY <1>17 DEF Flushes, IInv, TypeOK, session, parent, TokenInv
<1>18. ASSUME NEW w \in Workers, Exits(w) PROVE TokenInv'
  BY <1>18 DEF Exits, IInv, TypeOK, Goto, session, parent, TokenInv
<1>19. ASSUME NEW w \in Workers, Expires(w) PROVE TokenInv'
  BY <1>19 DEF Expires, IInv, TypeOK, Goto, Live, session, parent, TokenInv
<1>20. ASSUME NEW w \in Workers, Takes(w) PROVE TokenInv'
  BY <1>20 DEF Takes, IInv, TypeOK, session, TokenInv
<1>21. ASSUME NEW w \in Workers, Terminates(w) PROVE TokenInv'
  BY <1>21 DEF Terminates, IInv, TypeOK, Goto, Live, session, parent, TokenInv
<1>22. ASSUME ParentEnds PROVE TokenInv'
  BY <1>22 DEF ParentEnds, IInv, TypeOK, Goto, worker, session, TokenInv
<1>25. ASSUME NEW w \in Workers, PassesDead(w) PROVE TokenInv'
  BY <1>25 DEF PassesDead, IInv, TypeOK, Goto, worker, session, TokenInv
<1>23. ASSUME Finish PROVE TokenInv'
  BY <1>23 DEF Finish, IInv, TypeOK, worker, session, parent, TokenInv
<1>24. ASSUME UNCHANGED vars PROVE TokenInv'
  BY <1>24 DEF vars, IInv, TypeOK, worker, session, parent, TokenInv
<1> QED
  BY <1>1, <1>2, <1>3, <1>4, <1>5, <1>6, <1>7, <1>8, <1>9, <1>10, <1>11, <1>12, <1>13, <1>14,
     <1>15, <1>16, <1>17, <1>18, <1>19, <1>20, <1>21, <1>22, <1>23, <1>24, <1>25 DEF Next,
     WorkerStep, ParentStep

(* One worker's block counts add up. *)
LEMMA BlocksStep ==
  ASSUME IInv, [Next]_vars
  PROVE  BlocksAddUp'
<1>1. ASSUME NEW w \in Workers, Raises(w) PROVE BlocksAddUp'
  BY <1>1 DEF Raises, IInv, TypeOK, Goto, Ends, session, parent, BlocksAddUp, Records
<1>2. ASSUME NEW w \in Workers, Boot(w) PROVE BlocksAddUp'
  BY <1>2 DEF Boot, IInv, TypeOK, Goto, session, parent, BlocksAddUp, Records
<1>3. ASSUME NEW w \in Workers, Opened(w) PROVE BlocksAddUp'
  BY <1>3 DEF Opened, IInv, TypeOK, Goto, parent, BlocksAddUp, Records
<1>4. ASSUME NEW w \in Workers, GivesUp(w) PROVE BlocksAddUp'
  BY <1>4 DEF GivesUp, IInv, TypeOK, Goto, Ends, parent, BlocksAddUp, Records, NextIter, GoesOn,
     WithinBudget
<1>5. ASSUME NEW w \in Workers, Receive(w) PROVE BlocksAddUp'
  BY <1>5 DEF Receive, IInv, TypeOK, Goto, parent, BlocksAddUp, Records, NextIter, GoesOn,
     WithinBudget
<1>6. ASSUME NEW w \in Workers, Unusable(w) PROVE BlocksAddUp'
  BY <1>6 DEF Unusable, IInv, TypeOK, Goto, Ends, parent, BlocksAddUp, Records, NextIter, GoesOn,
     WithinBudget
<1>7. ASSUME NEW w \in Workers, CompiledBlocks(w) PROVE BlocksAddUp'
  <2>1. PICK k \in 0..open[w] :
          /\ open' = [open EXCEPT ![w] = @ - k]
          /\ \/ shown' = [ClosedShown(BlocksShown(SketchShown(w), open[w]), k)
                              EXCEPT !.phase = VerifyShown.phase]
             \/ shown' = ClosedShown(BlocksShown(SketchShown(w), open[w]), k)
    BY <1>7 DEF CompiledBlocks
  <2>2. /\ shown \in Records /\ open[w] \in 0..Blocks
        /\ open'[w] = open[w] - k
        /\ drafts'[w] # 0 /\ script = "blocks" /\ script' = script
        /\ \A v \in Workers \ {w} : drafts'[v] = drafts[v]
    BY <1>7, <2>1 DEF CompiledBlocks, IInv, TypeOK
  <2>3. ASSUME \A v \in Workers \ {w} : drafts'[v] = 0
        PROVE  shown'.total = shown'.closed + open'[w]
    <3>1. shown.total = shown.closed + open[w]
      BY <2>2, <2>3 DEF IInv, BlocksAddUp
    <3>2. VerifyShown.phase \in {"proving", "verifying"}
      BY <2>2, ShownTypes
    <3>3. open[w] - k \in Int
      BY <2>2
    <3> DEFINE d == ClosedShown(BlocksShown(SketchShown(w), open[w]), k)
               e == [d EXCEPT !.phase = VerifyShown.phase]
               n == open[w] - k
    <3>4. d.total = d.closed + n /\ e.total = e.closed + n
      BY <2>2, <3>1, <3>2, <3>3, ShownBlocks
    <3> HIDE DEF d
    <3>5. shown' = e \/ shown' = d
      BY <2>1 DEF d
    <3>6. open'[w] = n
      BY <2>2
    <3> HIDE DEF e, n
    <3> QED
      BY <3>4, <3>5, <3>6
  <2> QED
    BY <2>2, <2>3 DEF BlocksAddUp
<1>8. ASSUME NEW w \in Workers, CompiledWhole(w) PROVE BlocksAddUp'
  BY <1>8 DEF CompiledWhole, IInv, TypeOK, Goto, parent, BlocksAddUp, Records, SketchShown,
     VerifyShown
<1>9. ASSUME NEW w \in Workers, Answered(w) PROVE BlocksAddUp'
  BY <1>9 DEF Answered, IInv, TypeOK, Goto, parent, BlocksAddUp, Records
<1>10. ASSUME NEW w \in Workers, Rejected(w) PROVE BlocksAddUp'
  BY <1>10 DEF Rejected, IInv, TypeOK, Goto, session, parent, BlocksAddUp, Records
<1>11. ASSUME NEW w \in Workers, Verified(w) PROVE BlocksAddUp'
  BY <1>11 DEF Verified, IInv, TypeOK, Goto, session, parent, BlocksAddUp, Records, ResultShown
<1>12. ASSUME NEW w \in Workers, NotVerified(w) PROVE BlocksAddUp'
  BY <1>12 DEF NotVerified, IInv, TypeOK, Goto, Ends, parent, BlocksAddUp, Records, ResultShown
<1>13. ASSUME NEW w \in Workers, OpensResult(w) PROVE BlocksAddUp'
  BY <1>13 DEF OpensResult, IInv, TypeOK, Goto, session, parent, BlocksAddUp, Records
<1>14. ASSUME NEW w \in Workers, WritesResult(w) PROVE BlocksAddUp'
  BY <1>14 DEF WritesResult, IInv, TypeOK, Goto, Ends, session, parent, BlocksAddUp, Records,
     FoundShown
<1>15. ASSUME NEW w \in Workers, WriteFails(w) PROVE BlocksAddUp'
  BY <1>15 DEF WriteFails, IInv, TypeOK, Goto, Ends, session, parent, BlocksAddUp, Records,
     FoundShown
<1>16. ASSUME NEW w \in Workers, Reports(w) PROVE BlocksAddUp'
  BY <1>16 DEF Reports, IInv, TypeOK, Goto, session, parent, BlocksAddUp, Records
<1>17. ASSUME NEW w \in Workers, Flushes(w) PROVE BlocksAddUp'
  BY <1>17 DEF Flushes, IInv, TypeOK, session, parent, BlocksAddUp, Records
<1>18. ASSUME NEW w \in Workers, Exits(w) PROVE BlocksAddUp'
  BY <1>18 DEF Exits, IInv, TypeOK, Goto, session, parent, BlocksAddUp, Records
<1>19. ASSUME NEW w \in Workers, Expires(w) PROVE BlocksAddUp'
  BY <1>19 DEF Expires, IInv, TypeOK, Goto, Live, session, parent, BlocksAddUp, Records
<1>20. ASSUME NEW w \in Workers, Takes(w) PROVE BlocksAddUp'
  BY <1>20 DEF Takes, IInv, TypeOK, session, BlocksAddUp, Records
<1>21. ASSUME NEW w \in Workers, Terminates(w) PROVE BlocksAddUp'
  BY <1>21 DEF Terminates, IInv, TypeOK, Goto, Live, session, parent, BlocksAddUp, Records
<1>22. ASSUME ParentEnds PROVE BlocksAddUp'
  BY <1>22 DEF ParentEnds, IInv, TypeOK, Goto, worker, session, BlocksAddUp, Records
<1>25. ASSUME NEW w \in Workers, PassesDead(w) PROVE BlocksAddUp'
  BY <1>25 DEF PassesDead, IInv, TypeOK, Goto, worker, session, BlocksAddUp, Records
<1>23. ASSUME Finish PROVE BlocksAddUp'
  BY <1>23 DEF Finish, IInv, TypeOK, worker, session, parent, BlocksAddUp, Records
<1>24. ASSUME UNCHANGED vars PROVE BlocksAddUp'
  BY <1>24 DEF vars, IInv, TypeOK, worker, session, parent, BlocksAddUp
<1> QED
  BY <1>1, <1>2, <1>3, <1>4, <1>5, <1>6, <1>7, <1>8, <1>9, <1>10, <1>11, <1>12, <1>13, <1>14,
     <1>15, <1>16, <1>17, <1>18, <1>19, <1>20, <1>21, <1>22, <1>23, <1>24, <1>25 DEF Next,
     WorkerStep, ParentStep

LEMMA InitInv == Init => IInv
<1> SUFFICES ASSUME Init PROVE IInv
  OBVIOUS
<1>1. Taken = {} /\ Cardinality(Taken) = 0
  BY FS_EmptySet DEF Init, Taken
<1>2. Cardinality(Workers) \in Nat
  BY FS_CardinalityType
<1>3. TypeOK
  BY <1>2 DEF Init, TypeOK, Live, Records, MostTokens
<1>4. DraftInv /\ RcInv /\ CountInv /\ TokenInv
  BY <1>1 DEF Init, DraftInv, RcInv, CountInv, TokenInv, Live
<1>5. ParentInv /\ VerifyInv /\ VerdictInv
  BY <1>1 DEF Init, ParentInv, VerifyInv, VerdictInv, ProvedIsShown
<1>6. BlocksAddUp
  BY DEF Init, BlocksAddUp
<1> QED
  BY <1>3, <1>4, <1>5, <1>6 DEF IInv

(* The inductive invariant holds in every reachable state of the race.    *)
THEOREM Invariance == Spec => []IInv
<1>1. IInv /\ [Next]_vars => IInv'
  BY TypeStep, DraftStep, RcStep, CountStep, ParentStepInv, VerifyStep, VerdictStep, TokenStep,
     BlocksStep DEF IInv
<1> QED
  BY InitInv, <1>1, PTL DEF Spec

(* Every variable keeps its type; the parent's counter stays within the    *)
(* number of workers.                                                      *)
THEOREM TypeCorrect == Spec => []TypeOK
<1>1. IInv => TypeOK
  BY DEF IInv
<1> QED
  BY Invariance, <1>1, PTL

(* A result file that parses was verified, for any number of workers, with *)
(* clocks and terminations at any point of the writing.                    *)
THEOREM ResultsVerified == Spec => []ResultFilesVerified
<1>1. IInv => ResultFilesVerified
  BY DEF IInv, VerifyInv, ResultFilesVerified, Results
<1> QED
  BY Invariance, <1>1, PTL

(* A run that fails has heard a failure from each of its workers.          *)
THEOREM SuccessHeard == Spec => []NoSuccessMissed
<1>1. IInv => NoSuccessMissed
  BY DEF IInv, ParentInv, NoSuccessMissed
<1> QED
  BY Invariance, <1>1, PTL

(* Once the parent has exited, every worker has come to its last step or   *)
(* been terminated: no result file, event or verification follows, for any *)
(* number of workers, after a success and after every worker's failure.    *)
THEOREM NothingAfterEnd == Spec => QuietAfterEnd
<1>1. IInv /\ [Next]_vars /\ ppc = "ended" => UNCHANGED <<rfile, shown, verified>>
  <2> SUFFICES ASSUME IInv, [Next]_vars, ppc = "ended"
               PROVE  UNCHANGED <<rfile, shown, verified>>
    OBVIOUS
  <2>1. \A w \in Workers : pc[w] \in {"flush", "gone"}
    <3>1. CASE code = "ok"
      BY <3>1 DEF IInv, ParentInv
    <3>2. CASE code # "ok"
      BY <3>2 DEF IInv, ParentInv, RcInv
    <3> QED
      BY <3>1, <3>2
  <2>2. ASSUME NEW w \in Workers, WorkerStep(w) PROVE UNCHANGED <<rfile, shown, verified>>
    BY <2>1, <2>2 DEF WorkerStep, Raises, Boot, Opened, GivesUp, Receive, Unusable,
       CompiledBlocks, CompiledWhole, Answered, Rejected, Verified, NotVerified, OpensResult,
       WritesResult, WriteFails, Reports, Flushes, Exits
  <2>3. ASSUME NEW w \in Workers, Expires(w) PROVE UNCHANGED <<rfile, shown, verified>>
    BY <2>3 DEF Expires
  <2>4. ASSUME ParentStep PROVE UNCHANGED <<rfile, shown, verified>>
    BY <2>4 DEF ParentStep, ParentEnds, Takes, Terminates, PassesDead, worker
  <2>5. ASSUME Finish PROVE UNCHANGED <<rfile, shown, verified>>
    BY <2>5 DEF Finish, worker
  <2>6. ASSUME UNCHANGED vars PROVE UNCHANGED <<rfile, shown, verified>>
    BY <2>6 DEF vars, worker
  <2> QED
    BY <2>2, <2>3, <2>4, <2>5, <2>6 DEF Next
<1>2. IInv /\ [Next]_vars => [ppc = "ended" => UNCHANGED <<rfile, shown, verified>>]_vars
  BY <1>1
<1> QED
  BY Invariance, <1>2, PTL DEF Spec, QuietAfterEnd

(* A proved job rests on an accepted sketch, and shows one if there is a   *)
(* result file.                                                            *)
THEOREM ProvedRightly == Spec => []ProvedIsShown
<1>1. IInv => ProvedIsShown
  BY DEF IInv, VerdictInv
<1> QED
  BY Invariance, <1>1, PTL

(* The closed and the open blocks of a lone worker make up the total.      *)
THEOREM BlocksCounted == Spec => []BlocksAddUp
<1>1. IInv => BlocksAddUp
  BY DEF IInv
<1> QED
  BY Invariance, <1>1, PTL

(* The whole-proof script goes over its token limit once at most.          *)
THEOREM WithinTokens == Spec => []WholeProofTokenLimit
<1>1. IInv => WholeProofTokenLimit
  BY DEF IInv, TokenInv, WholeProofTokenLimit, TokenLimit
<1> QED
  BY Invariance, <1>1, PTL
=============================================================================
