----------------------------- MODULE MCCowMemory -----------------------------
(* The address spaces of processes (CowMemory), the pages of the kernel's    *)
(* heap and stacks (PageHeap) and the maps of the lib crate (Collections)    *)
(* for TLC.  The models have no variable in common and every behaviour is    *)
(* one of `model` alone: three checks that share a state graph.              *)
EXTENDS CowMemory, TLC

CONSTANTS
    HEAP_PAGES, STACK_PAGES, MAX_STACKS,                    \* PageHeap
    Keys, Values, Kinds, INITIAL_CAPACITY, CAPACITY, MAX_LOAD_FACTOR_PERCENT, MaxCapacity

VARIABLES
    model,      \* "cow", "pages" or "maps"
    bitmap, cursor, slots, table, free, blocks, stacks, mapped_count, op, panicked,
    kind, hash, buckets, len, occupied_count, result

MCSizes == {<<1, 1>>, <<2, 1>>, <<1, 2>>}

\* The frames and tasks of PageHeap are the same model values as those of CowMemory, so that one
\* set of permutations serves both.
H == INSTANCE PageHeap WITH Frames <- Frame, Tasks <- Space, None <- NoFrame, Sizes <- MCSizes
ASSUME H!PageHeapAssumption

\* All keys in one chain, or keys that meet now and then.
MCHashes == {[k \in Keys |-> 3], [k \in Keys |-> 5 * k]}
C == INSTANCE Collections WITH None <- NoFrame, Hashes <- MCHashes

mapVars == <<kind, hash, buckets, len, occupied_count, result>>
pageVars == <<bitmap, cursor, slots, table, free, blocks, stacks, mapped_count, op, panicked>>

\* The models other than the chosen one keep one first state.
MCInit ==
    /\ model \in {"cow", "pages", "maps"}
    /\ Init /\ H!Init
    /\ C!Init /\ (model # "maps" => kind = "static" /\ hash = [k \in Keys |-> 3])

MCNext ==
    /\ UNCHANGED model
    /\ \/ model = "cow" /\ Next /\ UNCHANGED <<pageVars, mapVars>>
       \/ model = "pages" /\ H!Next /\ UNCHANGED <<vars, mapVars>>
       \/ model = "maps" /\ C!Next /\ UNCHANGED <<vars, pageVars>>

MCSpec == MCInit /\ [][MCNext]_<<model, vars, pageVars, mapVars>>

Symmetry == Permutations(Space) \cup Permutations(Page) \cup Permutations(Frame)

\* Pages of the page heap and kernel stacks are never shared, and none of their assertions
\* fires: see PagesExclusive and StacksNeverPanic in PageHeap.
PagesSound == model = "pages" => H!PagesExclusive /\ H!StacksNeverPanic

\* Lookups end and no key is in two places: see TableSound in Collections.
MapsSound == model = "maps" => C!TableSound

\* Each of the three maps implements the trait, Contract!Spec of Collections: through collisions,
\* reused tombstones, a resize in the middle and removals from the middle of a chain every call
\* returns what a plain function would.
MapContract ==
    C!Contract!Init /\ [][model = "maps" => [C!Contract!Next]_(C!Contract!vars)]_mapVars
=============================================================================
