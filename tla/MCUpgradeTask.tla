---------------------------- MODULE MCUpgradeTask ----------------------------
(***************************************************************************)
(* Small instances of UpgradeTask for TLC.                                 *)
(***************************************************************************)
EXTENDS UpgradeTask

CONSTANTS c1, c2, p1, x1

TwoCreates == {c1, c2}
OneCreate == {c1}
OnePoll == {p1}
OneClear == {x1}
NoRequests == {}

Numeral(n) == [word |-> FALSE, value |-> n, zeros |-> 0]
Padded(n) == [word |-> FALSE, value |-> n, zeros |-> 1]
Word(rank) == [word |-> TRUE, value |-> rank, zeros |-> 0]

V(nums, pre, tail) == [nums |-> nums, pre |-> pre, tail |-> tail]

\* 2.0-rc.9, 2.0-rc.10, 2.0.0-stable
Candidates == <<V(<<2, 0>>, <<Word(1), Numeral(9)>>, "none"),
                V(<<2, 0>>, <<Word(1), Numeral(10)>>, "none"),
                V(<<2, 0, 0>>, <<>>, "stable")>>

TwoReleases == <<V(<<2, 0>>, <<>>, "none"), V(<<2, 0, 1>>, <<>>, "none")>>

\* What the theorems about UpgradeTask ask of the releases.
ASSUME CandidatesFollow == ReleasedInOrder

-----------------------------------------------------------------------------
(* The order of versions over a sample of their texts.                     *)

Identifiers == {Numeral(1), Numeral(9), Numeral(10), Word(0), Word(1)}

Texts == {<<>>} \cup {<<i>> : i \in Identifiers} \cup {<<Word(0), i>> : i \in Identifiers}

Sample == {V(nums, pre, "none") : nums \in {<<2>>, <<2, 0>>, <<2, 0, 1>>, <<2, 10>>},
                                  pre \in Texts}

\* Any two versions without padded numerals are ordered one way or are one.
ASSUME OrderIsTotal ==
    \A a, b \in Sample : ComparePanelVersions(a, b) = -ComparePanelVersions(b, a)

ASSUME OrderIsTransitive ==
    \A a, b \in Sample : IsRemoteVersionNewer(a, b) =>
        \A c \in Sample : IsRemoteVersionNewer(b, c) => IsRemoteVersionNewer(a, c)

\* Of 2.0-rc.1 and 2.0-rc.01 each is newer than the other.
ASSUME PaddedNumeralsAreNot ==
    LET plain == V(<<2, 0>>, <<Word(1), Numeral(1)>>, "none")
        padded == V(<<2, 0>>, <<Word(1), Padded(1)>>, "none")
    IN  IsRemoteVersionNewer(plain, padded) /\ IsRemoteVersionNewer(padded, plain)

\* A release of four numbers is offered, and not recognised once it runs.
ASSUME FourNumbersAreNot ==
    LET four == V(<<2, 0, 0, 1>>, <<>>, "none")
    IN  /\ IsRemoteVersionNewer(four, V(<<2, 0>>, <<>>, "none"))
        /\ ~VersionMatchesTarget(four, four) /\ ~RunnerRecognises(four, four)
=============================================================================
