----------------------------- MODULE VersionOrder -----------------------------
(***************************************************************************)
(* Versions of the panel: how the update check and the upgrade handlers    *)
(* order them (backend/internal/api/updates.go, upgrade_tasks.go), and how *)
(* the upgrade runner, a script with a parser of its own, recognises one.  *)
(*                                                                         *)
(* A version is what its text splits into: the numbers before the first    *)
(* other sign, the identifiers after a dash, and a tail.  The tail         *)
(* "stable" is one the parser drops, "other" one it refuses.  Identifiers  *)
(* are numerals, of a value and with a number of leading zeros, or words,  *)
(* of a rank in the order of strings.Compare.                              *)
(***************************************************************************)
EXTENDS Integers, Sequences

Identifier == [word : {TRUE}, value : Nat, zeros : {0}]
                \cup [word : {FALSE}, value : Nat, zeros : Nat]

Version == [nums : Seq(Nat), pre : Seq(Identifier), tail : {"none", "stable", "other"}]

\* parseSemanticVersion succeeds.
ParsesSemantic(v) == Len(v.nums) \in 1..3 /\ v.tail # "other"

\* Versions the panel parses, with no numeral that has leading zeros.
UnpaddedIdentifier == {i \in Identifier : i.zeros = 0}
Ordered == {v \in Version : ParsesSemantic(v) /\ v.pre \in Seq(UnpaddedIdentifier)}

\* A number that is missing is zero.
Part(v, i) == IF i <= Len(v.nums) THEN v.nums[i] ELSE 0

Sign(x, y) == IF x < y THEN -1 ELSE IF x > y THEN 1 ELSE 0

\* What the first position decides that decides anything.
ByFirstDifference(n, Order(_)) ==
    IF \E i \in 1..n : Order(i) # 0
    THEN Order(CHOOSE i \in 1..n : Order(i) # 0 /\ \A j \in 1..(i - 1) : Order(j) = 0)
    ELSE 0

CompareNumbers(a, b) ==
    LET longer == IF Len(a.nums) < Len(b.nums) THEN Len(b.nums) ELSE Len(a.nums)
    IN  ByFirstDifference(longer, LAMBDA i : Sign(Part(a, i), Part(b, i)))

\* Two numerals of one value are each the later one: the texts differ, the
\* values do not.
CompareIdentifier(a, b) ==
    CASE a = b -> 0
      [] a # b /\ a.word /\ b.word -> Sign(a.value, b.value)
      [] a # b /\ ~a.word /\ ~b.word -> IF a.value < b.value THEN -1 ELSE 1
      [] OTHER -> IF b.word THEN -1 ELSE 1

ComparePrerelease(p, q) ==
    LET shorter == IF Len(p) < Len(q) THEN Len(p) ELSE Len(q)
        decided == ByFirstDifference(shorter, LAMBDA i : CompareIdentifier(p[i], q[i]))
    IN  CASE p = q -> 0
          [] p # q /\ p = <<>> -> 1
          [] p # q /\ q = <<>> -> -1
          [] OTHER -> IF decided # 0 THEN decided
                      ELSE IF Len(p) < Len(q) THEN -1 ELSE 1

\* compareSemanticVersion
CompareSemantic(a, b) ==
    IF CompareNumbers(a, b) # 0 THEN CompareNumbers(a, b)
    ELSE ComparePrerelease(a.pre, b.pre)

\* comparePanelVersions: when either is not semantic, the numbers alone.
ComparePanelVersions(a, b) ==
    IF ParsesSemantic(a) /\ ParsesSemantic(b) THEN CompareSemantic(a, b)
    ELSE CompareNumbers(a, b)

\* isRemoteVersionNewer
IsRemoteVersionNewer(remote, current) == ComparePanelVersions(remote, current) > 0

VersionMatchesTarget(current, target) ==
    /\ ParsesSemantic(current) /\ ParsesSemantic(target)
    /\ CompareSemantic(current, target) = 0

\* PY_VERSION of the runner: the numbers, filled up to three, and the text
\* after the dash.
RunnerRecognises(current, target) ==
    /\ ParsesSemantic(current) /\ ParsesSemantic(target)
    /\ \A i \in 1..3 : Part(current, i) = Part(target, i)
    /\ current.pre = target.pre
=============================================================================
