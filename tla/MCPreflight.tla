----------------------------- MODULE MCPreflight -----------------------------
(* An instance of Preflight for TLC: every chain of up to three files of   *)
(* other VMs with at most one thing wrong, on a target with ample room;    *)
(* and all sizes of two disks around the limits, with no other VM.         *)
EXTENDS Preflight

CONSTANTS f1, f2, f3, x, b, here, elsewhere

AllFiles == {f1, f2, f3, x, b}
TheBackings == {b}
AllDirs == {here, elsewhere}

Except(fs, usual, unusual) == [f \in AllFiles |-> IF f \in fs THEN unusual ELSE usual]
AtMostOne(fs) == {{}} \cup {{f} : f \in fs}

Chains ==
    [{f1, f2, f3} -> AllFiles \cup {NoFile}]

SomeLayouts ==
    {[disks |-> d, dir |-> Except(e, here, elsewhere),
      parent |-> [f \in AllFiles |-> IF f \in {f1, f2, f3} THEN p[f] ELSE NoFile],
      hinted |-> Except(h, TRUE, FALSE), readable |-> Except(u, TRUE, FALSE),
      extents |-> [f \in AllFiles |-> IF f = f2 THEN s ELSE {x}]] :
        d \in {{f1}, {f1, f3}, {b}}, e \in AtMostOne({f2, x, b}), p \in Chains,
        h \in AtMostOne({f2}), u \in AtMostOne({f1, f2}), s \in {{x}, {b}}}

NoOthers ==
    [disks |-> {}, dir |-> Except({}, here, here), parent |-> Except({}, NoFile, NoFile),
     hinted |-> Except({}, TRUE, TRUE), readable |-> Except({}, TRUE, TRUE),
     extents |-> Except({}, {}, {})]

Amounts == {0, 99, 100, 250, 400, 800}
TwoSums == {[n \in 0..2 |-> CASE n = 0 -> 0 [] n = 1 -> a [] n = 2 -> a + c] : a, c \in Amounts}
SomeSizes ==
    {s \in [provisioned : TwoSums, allocated : TwoSums, taken : TwoSums] :
        Grows(s.allocated, s.provisioned) /\ Grows(s.taken, s.allocated)}

SomeInputs ==
    {[layout |-> l, sizes |-> [provisioned |-> s, allocated |-> s, taken |-> s], free |-> 900] :
        l \in SomeLayouts, s \in {[n \in 0..2 |-> 100 * n]}}
    \cup [layout : {NoOthers}, sizes : SomeSizes, free : {100, 250, 700, 900}]
=============================================================================
