---------------------------- MODULE PreflightProofs ----------------------------
(***************************************************************************)
(* Preflight for every layout and size: an isolated verdict is sound, the  *)
(* reserve never wraps around, a passed check leaves room, and a job is    *)
(* not refused for its own writes.                                         *)
(***************************************************************************)
EXTENDS Preflight, TLAPS

(***************************************************************************)
(* The walk.  What it has seen holds every link it left, with its parent.  *)
(***************************************************************************)
LayoutOK ==
    /\ layout.disks \subseteq Files
    /\ \A f \in Files : layout.parent[f] \in Files \cup {NoFile}

Left(f) ==
    /\ layout.extents[f] \cap Backings = {}
    /\ layout.parent[f] # NoFile => layout.parent[f] \in seen

WalkInv ==
    /\ LayoutOK
    /\ at \in Files \cup {NoFile} /\ seen \subseteq Files
    /\ layout.disks \subseteq todo \cup seen
    /\ at # NoFile => at \in seen
    /\ seen \cap Backings = {}
    /\ \A f \in seen : f # at => Left(f)
    /\ verdict = "isolated" => at = NoFile /\ todo = {}

LEMMA WalkInvInit == Init => WalkInv
  <1> SUFFICES ASSUME Init PROVE WalkInv
    OBVIOUS
  <1>1. PICK i \in Inputs : WalkInit(i.layout)
    BY DEF Init
  <1>2. i.layout \in Layouts
    BY InputAssumption
  <1>3. LayoutOK
    BY <1>1, <1>2 DEF WalkInit, Layouts, LayoutOK
  <1> QED
    BY <1>1, <1>3 DEF WalkInit, WalkInv

(* One disk more is looked at.                                             *)
LEMMA NextDiskKeeps ==
    ASSUME WalkInv, NEW f \in Files, NextDisk(f)
    PROVE  WalkInv'
  <1>1. CASE f \in Backings \/ ~layout.readable[f]
    BY <1>1 DEF NextDisk, Refuse, WalkInv, LayoutOK, Left
  <1>2. CASE ~(f \in Backings \/ ~layout.readable[f])
    <2>1. /\ todo' = todo \ {f} /\ at' = f /\ seen' = seen \cup {f}
          /\ UNCHANGED <<verdict, layout>> /\ at = NoFile /\ verdict = "walking"
      BY <1>2 DEF NextDisk
    <2>2. \A g \in seen' : g # at' => Left(g)'
      BY <2>1, IsolationAssumption DEF WalkInv, LayoutOK, Left
    <2> QED
      BY <1>2, <2>1, <2>2 DEF WalkInv, LayoutOK
  <1> QED
    BY <1>1, <1>2

(* A link is left only when it has no parent, or one that may be looked at.*)
LEMMA LinkKeeps ==
    ASSUME WalkInv, Link
    PROVE  WalkInv'
  <1> DEFINE p == layout.parent[at]
             refused == depth > MaxDepth \/ StrayExtent(at) \/ ~layout.hinted[at]
  <1>0. at \in Files /\ at \in seen /\ p \in Files \cup {NoFile} /\ verdict = "walking"
    BY DEF Link, WalkInv, LayoutOK
  <1>1. CASE refused \/ (p # NoFile /\ ParentRefused(p))
    <2>1. Refuse /\ UNCHANGED layout
      BY <1>1 DEF Link
    <2> QED
      BY <2>1 DEF Refuse, WalkInv, LayoutOK, Left
  <1>2. CASE ~refused /\ p = NoFile
    <2>1. at' = NoFile /\ UNCHANGED <<todo, home, depth, verdict, seen, layout>>
      BY <1>2 DEF Link
    <2>2. layout.extents[at] \cap Backings = {}
      BY <1>2 DEF StrayExtent
    <2>3. \A g \in seen' : Left(g)'
      BY <1>2, <2>1, <2>2 DEF WalkInv, Left
    <2> QED
      BY <1>0, <2>1, <2>3 DEF WalkInv, LayoutOK
  <1>3. CASE ~refused /\ p # NoFile /\ ~ParentRefused(p)
    <2>1. at' = p /\ seen' = seen \cup {p} /\ UNCHANGED <<todo, home, verdict, layout>>
      BY <1>3 DEF Link
    <2>2. layout.extents[at] \cap Backings = {} /\ p \in Files \ Backings
      BY <1>0, <1>3 DEF StrayExtent, ParentRefused
    <2>3. \A g \in seen' : g # at' => Left(g)'
      BY <1>0, <2>1, <2>2 DEF WalkInv, Left
    <2> QED
      BY <1>0, <2>1, <2>2, <2>3 DEF WalkInv, LayoutOK
  <1> QED
    BY <1>1, <1>2, <1>3

LEMMA WalkInvStep == WalkInv /\ [Next]_vars => WalkInv'
  <1> SUFFICES ASSUME WalkInv, [Next]_vars PROVE WalkInv'
    OBVIOUS
  <1>1. ASSUME NEW f \in Files, NextDisk(f) PROVE WalkInv'
    BY <1>1, NextDiskKeeps
  <1>2. CASE Link
    BY <1>2, LinkKeeps
  <1>3. CASE Isolated
    BY <1>3 DEF Isolated, WalkInv, LayoutOK, Left
  <1>4. CASE UNCHANGED isolationVars
    BY <1>4 DEF isolationVars, walkVars, WalkInv, LayoutOK, Left
  <1> QED
    BY <1>1, <1>2, <1>3, <1>4 DEF Next, Walks, Walk, Proceeds, vars

(* The files seen are the set that holds all the other VMs can reach.      *)
LEMMA WalkInvSound == WalkInv => IsolationSound
  <1> SUFFICES ASSUME WalkInv, verdict = "isolated"
               PROVE  \E S \in SUBSET Files : Covers(S) /\ ~Touches(S)
    BY DEF IsolationSound
  <1>1. at = NoFile /\ todo = {} /\ seen \in SUBSET Files
    BY DEF WalkInv
  <1>2. \A f \in seen : f # NoFile /\ Left(f)
    BY <1>1, IsolationAssumption DEF WalkInv
  <1>3. Covers(seen)
    BY <1>1, <1>2 DEF WalkInv, Covers, Left
  <1>4. ~Touches(seen)
    BY <1>1, <1>2 DEF WalkInv, Touches, Left
  <1> QED
    BY <1>1, <1>3, <1>4

\* sharedCheck: whatever disks, parents and extents the other VMs have, and
\* whatever the depth it stops at, an isolated verdict means that they reach no
\* file of the source VM.
THEOREM IsolationIsSound == Spec => []IsolationSound
  <1>1. Spec => []WalkInv
    BY WalkInvInit, WalkInvStep, PTL DEF Spec
  <1> QED
    BY <1>1, WalkInvSound, PTL

(***************************************************************************)
(* The space.                                                              *)
(***************************************************************************)
(* A sum that fits is not changed by the width of an int64.                *)
LEMMA WrapFits ==
    ASSUME NEW n \in 0..MaxInt
    PROVE  Wrap(n) = n
  <1> DEFINE m == MaxInt + 1
             k == n + MaxInt + 1
  <1>1. m \in Nat \ {0} /\ k \in Nat /\ k < 2 * m
    BY CapacityAssumption
  <1> HIDE DEF m, k
  <1>2. k % (2 * m) = k
    BY <1>1
  <1> QED
    BY <1>1, <1>2, CapacityAssumption DEF Wrap, m, k

\* reserve: its bound on the capacity is tight enough that neither sum leaves an
\* int64, so the reserve is the capacity, 15 percent of it and a gibibyte.
LEMMA ReserveExact ==
    ASSUME NEW bytes \in Int, ~Overflows(bytes)
    PROVE  /\ Reserve(bytes) = bytes + (bytes \div 100) * 15 + GiB
           /\ Reserve(bytes) \in 0..MaxInt
           /\ Reserve(bytes) >= bytes + GiB
  <1>1. bytes \in Nat /\ bytes <= ((MaxInt - GiB) \div 115) * 100 /\ MaxInt - GiB \in Nat
    BY CapacityAssumption DEF Overflows
  <1> DEFINE q == bytes \div 100
             limit == (MaxInt - GiB) \div 115
  <1>2. q \in Nat /\ 100 * q <= bytes /\ bytes < 100 * q + 100
    BY <1>1
  <1>3. limit \in Nat /\ 115 * limit <= MaxInt - GiB
    BY <1>1
  <1>4. bytes <= 100 * limit
    BY <1>1
  <1> HIDE DEF q, limit
  <1>5. bytes + q * 15 \in Nat /\ bytes + q * 15 + GiB <= MaxInt
    BY <1>1, <1>2, <1>3, <1>4, CapacityAssumption
  <1>6. Wrap(bytes + q * 15) = bytes + q * 15
    BY <1>5, CapacityAssumption, WrapFits
  <1>7. Wrap(bytes + q * 15 + GiB) = bytes + q * 15 + GiB
    BY <1>5, CapacityAssumption, WrapFits
  <1> QED
    BY <1>1, <1>2, <1>5, <1>6, <1>7, CapacityAssumption DEF Reserve, q

(* A job that needs less by what its clone took at most still has room.    *)
LEMMA ReserveShrinks ==
    ASSUME NEW more \in Int, ~Overflows(more), NEW less \in 0..more
    PROVE  ~Overflows(less) /\ Reserve(less) <= Reserve(more) - (more - less)
  <1>1. ~Overflows(less)
    BY CapacityAssumption DEF Overflows
  <1>2. more \div 100 \in Int /\ less \div 100 \in Int /\ less \div 100 <= more \div 100
    BY DEF Overflows
  <1> QED
    BY <1>1, <1>2, ReserveExact, CapacityAssumption

(***************************************************************************)
(* The job.  Between its checks it never falls below its reserve by its    *)
(* own clones.                                                             *)
(***************************************************************************)
SpaceInv ==
    /\ sizes \in Sizes /\ free \in Int /\ cloned \in 0..Count
    /\ space \in {"check", "clone", "blocked", "done"}
    /\ consumed = sizes.allocated[cloned]
    /\ space = "clone" => cloned < Count /\ Passes
    /\ cloned > 0 /\ ~others => Passes
    /\ space = "blocked" => ~Passes

LEMMA SpaceInvInit == Init => SpaceInv
  <1> SUFFICES ASSUME Init PROVE SpaceInv
    OBVIOUS
  <1>1. PICK i \in Inputs : SpaceInit(i.sizes, i.free)
    BY DEF Init
  <1>2. i.sizes \in Sizes /\ i.free \in Int /\ i.sizes.allocated[0] = 0
    BY InputAssumption, CapacityAssumption DEF Sizes
  <1> QED
    BY <1>1, <1>2, CapacityAssumption DEF SpaceInit, SpaceInv

(* What is left to copy, by each of the sums.                              *)
LEMMA SumsGrow ==
    ASSUME SpaceInv, NEW n \in cloned..Count
    PROVE  /\ \A k \in {cloned, n, Count} :
                /\ sizes.provisioned[k] \in Nat /\ sizes.allocated[k] \in Nat
                /\ sizes.taken[k] \in Nat
           /\ sizes.taken[n] - sizes.taken[cloned] \in Nat
           /\ sizes.allocated[n] - sizes.allocated[cloned]
                >= sizes.taken[n] - sizes.taken[cloned]
           /\ sizes.allocated[Count] >= sizes.allocated[n]
           /\ sizes.provisioned[Count] - sizes.provisioned[n]
                >= sizes.allocated[Count] - sizes.allocated[n]
           /\ sizes.provisioned[n] >= sizes.allocated[n]
  <1>1. cloned \in 0..Count /\ n \in 0..Count /\ Count \in n..Count /\ 0 \in 0..Count
        /\ n \in 0..n /\ n \in cloned..Count /\ Count \in 0..Count
    BY CapacityAssumption DEF SpaceInv
  <1>2. /\ sizes.provisioned \in Sums /\ sizes.allocated \in Sums /\ sizes.taken \in Sums
        /\ sizes.provisioned[0] = 0 /\ sizes.allocated[0] = 0
        /\ Grows(sizes.allocated, sizes.provisioned) /\ Grows(sizes.taken, sizes.allocated)
    BY DEF SpaceInv, Sizes
  <1>3. \A k \in {cloned, n, Count} :
          /\ sizes.provisioned[k] \in Nat /\ sizes.allocated[k] \in Nat /\ sizes.taken[k] \in Nat
    BY <1>1, <1>2 DEF Sums
  <1>4. /\ sizes.taken[n] >= sizes.taken[cloned]
        /\ sizes.taken[n] - sizes.taken[cloned] <= sizes.allocated[n] - sizes.allocated[cloned]
    BY <1>1, <1>2 DEF Grows
  <1>5. /\ sizes.allocated[Count] >= sizes.allocated[n]
        /\ sizes.allocated[Count] - sizes.allocated[n]
             <= sizes.provisioned[Count] - sizes.provisioned[n]
    BY <1>1, <1>2 DEF Grows
  <1>6. sizes.allocated[n] - sizes.allocated[0] <= sizes.provisioned[n] - sizes.provisioned[0]
    BY <1>1, <1>2, n \in 0..Count DEF Grows
  <1> QED
    BY <1>2, <1>3, <1>4, <1>5, <1>6

(* The needs of a check, without the guards against negative sums.         *)
LEMMA RemainingValue ==
    ASSUME SpaceInv
    PROVE  /\ Remaining = sizes.allocated[Count] - sizes.allocated[cloned]
           /\ Grown = sizes.provisioned[Count] - sizes.allocated[cloned]
           /\ Remaining \in Nat /\ Grown \in Nat
  <1>1. cloned \in cloned..Count /\ Count \in cloned..Count
    BY CapacityAssumption DEF SpaceInv
  <1> QED
    BY <1>1, SumsGrow DEF SpaceInv, Remaining, Grown, AtLeast0

(* A clone takes no more of the free space than of what remains to copy.   *)
LEMMA CloneKeeps ==
    ASSUME SpaceInv, Clone
    PROVE  SpaceInv'
  <1> DEFINE da == sizes.allocated[cloned + 1] - sizes.allocated[cloned]
             dt == sizes.taken[cloned + 1] - sizes.taken[cloned]
  <1>1. /\ cloned \in 0..Count /\ cloned < Count /\ Passes /\ space = "clone"
        /\ cloned + 1 \in cloned..Count /\ cloned + 1 \in 0..Count /\ free \in Int
    BY CapacityAssumption DEF SpaceInv, Clone
  <1>2. /\ cloned' = cloned + 1 /\ consumed' = consumed + da /\ free' = free - dt
        /\ space' = "check" /\ UNCHANGED <<sizes, others>>
    BY DEF Clone
  <1>3. /\ dt \in Nat /\ da \in Int /\ da >= dt
        /\ sizes.allocated[Count] \in Nat /\ sizes.allocated[cloned] \in Nat
        /\ sizes.allocated[cloned + 1] \in Nat /\ sizes.provisioned[Count] \in Nat
        /\ sizes.provisioned[cloned + 1] \in Nat
        /\ sizes.allocated[Count] >= sizes.allocated[cloned + 1]
        /\ sizes.provisioned[Count] >= sizes.allocated[cloned + 1]
    <2>1. /\ sizes.allocated[cloned] \in Nat /\ sizes.allocated[cloned + 1] \in Nat
          /\ sizes.allocated[Count] \in Nat /\ sizes.provisioned[Count] \in Nat
          /\ sizes.provisioned[cloned + 1] \in Nat
          /\ dt \in Nat /\ da >= dt
          /\ sizes.allocated[Count] >= sizes.allocated[cloned + 1]
          /\ sizes.provisioned[Count] - sizes.provisioned[cloned + 1]
               >= sizes.allocated[Count] - sizes.allocated[cloned + 1]
          /\ sizes.provisioned[cloned + 1] >= sizes.allocated[cloned + 1]
      BY <1>1, SumsGrow
    <2> QED
      BY <2>1
  <1>4. /\ consumed = sizes.allocated[cloned] /\ consumed' = sizes.allocated[cloned + 1]
    BY <1>2, <1>3 DEF SpaceInv
  <1>5. /\ Remaining' = Remaining - da /\ Remaining' \in 0..Remaining
        /\ Grown' \in 0..Grown /\ Remaining \in Int /\ Grown \in Int
    <2>1. /\ Remaining' = sizes.allocated[Count] - sizes.allocated[cloned + 1]
          /\ Grown' = sizes.provisioned[Count] - sizes.allocated[cloned + 1]
      BY <1>2, <1>3, <1>4 DEF Remaining, Grown, AtLeast0
    <2> QED
      BY <2>1, <1>3, RemainingValue
  <1>6. /\ ~Overflows(Remaining) /\ ~Overflows(Grown) /\ free >= Reserve(Remaining)
        /\ sizes.provisioned[Count] <= MaxInt
    BY <1>1 DEF Passes
  <1>7. /\ ~Overflows(Remaining') /\ ~Overflows(Grown')
        /\ Reserve(Remaining') <= Reserve(Remaining) - da
        /\ Reserve(Remaining) \in Int /\ Reserve(Remaining') \in Int
    <2> DEFINE rest == Remaining'
               grown == Grown'
    <2>1. /\ rest = Remaining - da /\ rest \in 0..Remaining /\ grown \in 0..Grown
      BY <1>5
    <2> HIDE DEF rest, grown
    <2>2. ~Overflows(rest) /\ Reserve(rest) <= Reserve(Remaining) - (Remaining - rest)
      BY <2>1, <1>5, <1>6, ReserveShrinks
    <2>3. ~Overflows(grown)
      BY <2>1, <1>5, <1>6, ReserveShrinks
    <2>4. Reserve(Remaining) \in Int /\ Reserve(rest) \in Int
      BY <2>1, <2>2, <1>5, <1>6, ReserveExact, CapacityAssumption
    <2> QED
      BY <2>1, <2>2, <2>3, <2>4, <1>3, <1>5 DEF rest, grown
  <1>8. free' >= Reserve(Remaining')
    BY <1>1, <1>2, <1>3, <1>6, <1>7
  <1>9. Passes'
    BY <1>2, <1>6, <1>7, <1>8 DEF Passes, Reserve, Wrap, Overflows
  <1> QED
    BY <1>1, <1>2, <1>3, <1>4, <1>9 DEF SpaceInv

LEMMA SpaceInvStep == SpaceInv /\ [Next]_vars => SpaceInv'
  <1> SUFFICES ASSUME SpaceInv, [Next]_vars PROVE SpaceInv'
    OBVIOUS
  <1>1. CASE Check
    <2>1. Passes' <=> Passes
      BY <1>1 DEF Check, Passes, Remaining, Grown
    <2> QED
      BY <1>1, <2>1 DEF Check, SpaceInv
  <1>2. CASE Clone
    BY <1>2, CloneKeeps
  <1>3. ASSUME NEW f \in FreeSpaces, OthersWrite(f) PROVE SpaceInv'
    <2>1. f \in Int
      BY InputAssumption, CapacityAssumption DEF FreeSpaces
    <2> QED
      BY <1>3, <2>1 DEF OthersWrite, SpaceInv
  <1>4. CASE UNCHANGED capacityVars
    BY <1>4 DEF capacityVars, SpaceInv, Passes, Remaining, Grown
  <1> QED
    BY <1>1, <1>2, <1>3, <1>4 DEF Next, Walks, Proceeds, vars

\* The check before a clone leaves room for all that is still to be copied, for
\* any capacities up to the limit of an int64 and whoever writes to the target.
THEOREM RoomIsLeft == Spec => []LeavesRoom
  <1>1. SpaceInv => LeavesRoom
    <2> SUFFICES ASSUME SpaceInv, space = "clone"
                 PROVE  free >= (sizes.taken[Count] - sizes.taken[cloned]) + GiB
      BY DEF LeavesRoom
    <2>1. Passes /\ Count \in cloned..Count
      BY CapacityAssumption DEF SpaceInv
    <2>2. Remaining \in Int /\ Remaining >= sizes.taken[Count] - sizes.taken[cloned]
          /\ sizes.taken[Count] \in Nat /\ sizes.taken[cloned] \in Nat
      BY <2>1, RemainingValue, SumsGrow
    <2>3. Reserve(Remaining) >= Remaining + GiB /\ Reserve(Remaining) \in Int
      BY <2>1, <2>2, ReserveExact, CapacityAssumption DEF Passes
    <2> QED
      BY <2>1, <2>2, <2>3, CapacityAssumption DEF Passes, SpaceInv
  <1>2. Spec => []SpaceInv
    BY SpaceInvInit, SpaceInvStep, PTL DEF Spec
  <1> QED
    BY <1>1, <1>2, PTL

\* progress: a repeated preflight does not refuse a job for the space that its
\* own clones have taken, whatever the sizes of its disks.
THEOREM JobIsNotBlocked == Spec => []OwnWritesNeverBlock
  <1>1. SpaceInv => OwnWritesNeverBlock
    BY DEF SpaceInv, OwnWritesNeverBlock
  <1>2. Spec => []SpaceInv
    BY SpaceInvInit, SpaceInvStep, PTL DEF Spec
  <1> QED
    BY <1>1, <1>2, PTL
=============================================================================
