------------------------------- MODULE Capacity -------------------------------
(***************************************************************************)
(* The free space of a cold migration's target: reserve, the free-space    *)
(* check of Analyzer.inspect, and how Engine.cold repeats it before every  *)
(* clone with what its clones have consumed.  Go's int64 is -MaxInt-1 to   *)
(* MaxInt.                                                                 *)
(***************************************************************************)
EXTENDS Integers

CONSTANTS
    MaxInt,   \* 2^63 - 1
    GiB,      \* 2^30
    Count     \* how many disks the VM has

ASSUME CapacityAssumption ==
    MaxInt \in Nat /\ GiB \in 1..MaxInt /\ Count \in Nat \ {0}

VARIABLES
    sizes,      \* the disks' sizes, as sums over the first n disks: the input
    free,       \* free space on the target
    consumed,   \* what cold adds up of d.Allocated
    cloned,     \* how many disks are cloned
    others,     \* somebody else wrote to the target since the job started
    space       \* "check": before the check; "clone": it passed; "blocked"; "done"

capacityVars == <<sizes, free, consumed, cloned, others, space>>

(* After n disks: r.Provisioned; r.Allocated, where an allocation that     *)
(* cannot be read counts as provisioned; and what a thin clone takes.      *)
Sums == [0..Count -> Nat]
Grows(small, large) ==
    \A n \in 0..Count : \A m \in n..Count :
        small[m] >= small[n] /\ small[m] - small[n] <= large[m] - large[n]
Sizes ==
    {s \in [provisioned : Sums, allocated : Sums, taken : Sums] :
        /\ s.provisioned[0] = 0 /\ s.allocated[0] = 0 /\ s.taken[0] = 0
        /\ Grows(s.allocated, s.provisioned) /\ Grows(s.taken, s.allocated)}

SpaceInit(s, f) ==
    /\ sizes = s /\ free = f
    /\ consumed = 0 /\ cloned = 0 /\ others = FALSE /\ space = "check"

Wrap(n) == ((n + MaxInt + 1) % (2 * (MaxInt + 1))) - (MaxInt + 1)

OverflowsIfNegative(bytes) == bytes < 0
Overflows(bytes) == bytes < 0 \/ bytes > ((MaxInt - GiB) \div 115) * 100
Reserve(bytes) == Wrap(Wrap(bytes + (bytes \div 100) * 15) + GiB)

AtLeast0(n) == IF n < 0 THEN 0 ELSE n
Remaining == AtLeast0(sizes.allocated[Count] - consumed)
Grown == AtLeast0(sizes.provisioned[Count] - consumed)

(* The disks' capacities are added up with a check of their own, and room  *)
(* for the disks once they have grown is a warning only.                   *)
Passes ==
    /\ sizes.provisioned[Count] <= MaxInt
    /\ ~Overflows(Remaining) /\ ~Overflows(Grown)
    /\ free >= Reserve(Remaining)

Check ==
    /\ space = "check"
    /\ space' = IF ~Passes THEN "blocked" ELSE IF cloned < Count THEN "clone" ELSE "done"
    /\ UNCHANGED <<sizes, free, consumed, cloned, others>>

(* A clone, with StartClone's own checks, is JobSteps; here it takes space.*)
CloneUncounted ==
    /\ space = "clone"
    /\ cloned' = cloned + 1
    /\ free' = free - (sizes.taken[cloned'] - sizes.taken[cloned])
    /\ space' = "check"
    /\ UNCHANGED <<sizes, consumed, others>>
Clone ==
    /\ space = "clone"
    /\ cloned' = cloned + 1
    /\ consumed' = consumed + (sizes.allocated[cloned'] - sizes.allocated[cloned])
    /\ free' = free - (sizes.taken[cloned'] - sizes.taken[cloned])
    /\ space' = "check"
    /\ UNCHANGED <<sizes, others>>

(* Somebody else fills the target, or frees space there; a write during a  *)
(* clone shows at the next check.                                          *)
OthersWrite(f) ==
    /\ space = "check" /\ ~others
    /\ free' = f /\ others' = TRUE
    /\ UNCHANGED <<sizes, consumed, cloned, space>>

\* A disk is cloned only when all that is still to be copied has room on the
\* target, whoever else writes there, and a gibibyte is left: the sums do not
\* wrap around, and what the job consumed is not counted twice.
LeavesRoom ==
    space = "clone" => free >= (sizes.taken[Count] - sizes.taken[cloned]) + GiB

\* analyzer.go: "so that the repeated preflight does not block on the job's own
\* lock, folder or writes".  A job that passed its first check is not refused for
\* the space its own clones took.
OwnWritesNeverBlock == cloned > 0 /\ ~others => space # "blocked"
=============================================================================
