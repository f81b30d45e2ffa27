------------------------------- MODULE Isolation -------------------------------
(***************************************************************************)
(* Analyzer.sharedCheck and Analyzer.otherChain: whether the disks of the  *)
(* other registered VMs, with every parent in their snapshot chains, are   *)
(* apart from the disks and extents of the source VM.  A file stands for   *)
(* its canonical path.                                                     *)
(***************************************************************************)
EXTENDS Integers

CONSTANTS
    Files,      \* descriptors and extents on the host's datastores
    Dirs,       \* their directories
    Backings,   \* those of the source VM: the map backings
    NoFile,     \* no parent, or no link
    MaxDepth    \* 32: the last depth otherChain looks at

ASSUME IsolationAssumption ==
    Backings \subseteq Files /\ NoFile \notin Files /\ MaxDepth \in Nat

VARIABLES
    layout,    \* what is on the host: the input
    todo,      \* disks of other VMs not looked at yet
    at,        \* the link otherChain is at
    home,      \* dir: the directory of the chain's disk
    depth,     \* the loop variable
    verdict,   \* of sharedCheck
    seen       \* history: the links it looked at

walkVars == <<todo, at, home, depth, verdict, seen>>
isolationVars == <<layout, walkVars>>

(* A parent of NoFile is a parentCID of ffffffff and no hint; hinted is    *)
(* FALSE when the descriptor names a parent's CID and no file.             *)
Layouts ==
    [disks : SUBSET Files, dir : [Files -> Dirs], parent : [Files -> Files \cup {NoFile}],
     hinted : [Files -> BOOLEAN], readable : [Files -> BOOLEAN], extents : [Files -> SUBSET Files]]

WalkInit(l) ==
    /\ layout = l /\ todo = l.disks
    /\ at = NoFile /\ home = "none" /\ depth = 0 /\ verdict = "walking" /\ seen = {}

Refuse == verdict' = "refused" /\ UNCHANGED <<todo, at, home, depth, seen>>

(* sharedCheck takes the disks of the other VMs in any order (map ranges). *)
NextDisk(f) ==
    /\ verdict = "walking" /\ at = NoFile /\ f \in todo
    /\ IF f \in Backings \/ ~layout.readable[f]
       THEN Refuse
       ELSE /\ todo' = todo \ {f} /\ at' = f /\ home' = layout.dir[f] /\ depth' = 0
            /\ seen' = seen \cup {f} /\ UNCHANGED verdict
    /\ UNCHANGED layout

(* What makes otherChain refuse a link before it looks at its parent.      *)
StrayExtent(f) == \E x \in layout.extents[f] : x \in Backings \/ layout.dir[x] # home

ParentRefusedByPath(p) == layout.dir[p] # home \/ ~layout.readable[p]
ParentRefused(p) == p \in Backings \/ layout.dir[p] # home \/ ~layout.readable[p]

LinkUnbounded ==
    /\ verdict = "walking" /\ at # NoFile
    /\ LET p == layout.parent[at] IN
       IF StrayExtent(at) \/ ~layout.hinted[at] THEN Refuse
       ELSE IF p = NoFile THEN at' = NoFile /\ UNCHANGED <<todo, home, depth, verdict, seen>>
       ELSE IF ParentRefused(p) THEN Refuse
       ELSE at' = p /\ seen' = seen \cup {p} /\ UNCHANGED <<todo, home, depth, verdict>>
    /\ UNCHANGED layout
Link ==
    /\ verdict = "walking" /\ at # NoFile
    /\ LET p == layout.parent[at] IN
       IF depth > MaxDepth \/ StrayExtent(at) \/ ~layout.hinted[at] THEN Refuse
       ELSE IF p = NoFile THEN at' = NoFile /\ UNCHANGED <<todo, home, depth, verdict, seen>>
       ELSE IF ParentRefused(p) THEN Refuse
       ELSE /\ at' = p /\ depth' = depth + 1 /\ seen' = seen \cup {p}
            /\ UNCHANGED <<todo, home, verdict>>
    /\ UNCHANGED layout

Isolated ==
    /\ verdict = "walking" /\ at = NoFile /\ todo = {}
    /\ verdict' = "isolated"
    /\ UNCHANGED <<layout, todo, at, home, depth, seen>>

Walk == (\E f \in Files : NextDisk(f)) \/ Link \/ Isolated

(***************************************************************************)
(* The reference.  A set of files that holds the disks and every parent of *)
(* a member holds all that the other VMs can reach.                        *)
(***************************************************************************)
Covers(S) ==
    layout.disks \subseteq S /\ \A f \in S : layout.parent[f] # NoFile => layout.parent[f] \in S

Touches(S) == \E f \in S : f \in Backings \/ layout.extents[f] \cap Backings # {}

(* The chain of f: what its first n links reach.                           *)
ChainOf(f, n) ==
    LET step[k \in 0..n] ==
          IF k = 0 THEN f
          ELSE IF step[k - 1] = NoFile THEN NoFile ELSE layout.parent[step[k - 1]]
    IN step

Proven(f) ==
    LET chain == ChainOf(f, MaxDepth + 1)
        links == {chain[k] : k \in 0..(MaxDepth + 1)} \ {NoFile}
    IN  /\ NoFile \in {chain[k] : k \in 0..(MaxDepth + 1)}
        /\ \A g \in links :
             /\ g \notin Backings /\ layout.readable[g] /\ layout.hinted[g]
             /\ layout.dir[g] = layout.dir[f]
             /\ \A x \in layout.extents[g] : x \notin Backings /\ layout.dir[x] = layout.dir[f]

\* otherChain: "block on any link that touches a source backing".  When the
\* verdict is isolated, the other VMs reach no file of the source VM, along
\* whatever chains: a set that holds all they reach holds none.
IsolationSound ==
    verdict = "isolated" => \E S \in SUBSET Files : Covers(S) /\ ~Touches(S)

\* The walk ends, also along a cycle or a chain that is too deep, and refuses
\* exactly the VMs whose isolation cannot be proven: "follow it instead of
\* refusing outright".
Judged ==
    <>(verdict # "walking" /\ (verdict = "isolated" <=> \A f \in layout.disks : Proven(f)))
=============================================================================
