------------------------------ MODULE MCLists ------------------------------
(***************************************************************************)
(* ListPrint, ShoppingLists and CatalogCache for TLC: the lists, numbers   *)
(* and catalogs that pages show of Mealie. One of them runs in each        *)
(* behaviour: what B2M keeps of Mealie, each of them keeps for itself.     *)
(***************************************************************************)
EXTENDS ListPrint, TLC

CONSTANTS
    l1, l2, r1, r2, fa, p1, p2, t1, t2, t3, units, labels,
    Goods, Threads, MaxQuantity, MaxAsks, MaxMoves, MaxFailures,
    CatalogNames, Readers, MaxReads, MaxEdits

VARIABLES
    part,   \* the component that runs
    mealie, past, rows, lists, counts, chosen, legacy, job, requests, moves,
    failures, posted, done,
    catalog, cache, lock, reader, reads, cleared, newest

shopVars == <<mealie, past, rows, lists, counts, chosen, legacy, job, requests,
              moves, failures, posted, done>>

cacheVars == <<catalog, cache, lock, reader, reads, cleared, newest>>

all == <<part, vars, shopVars, cacheVars>>

S == INSTANCE ShoppingLists WITH
         Foods <- Goods, MaxRequests <- MaxAsks, MaxChanges <- MaxMoves,
         changes <- moves

C == INSTANCE CatalogCache WITH
         Names <- CatalogNames, Threads <- Readers, MaxRequests <- MaxReads,
         mealie <- catalog, job <- reader, count <- reads

\* There is a catalog and a Food to ask for, and no thread is called nobody.
ASSUME CatalogAssumption ==
    /\ CatalogNames # {} /\ C!None \notin Readers
    /\ MaxReads \in Nat /\ MaxEdits \in Nat

ASSUME ShopAssumption ==
    /\ Goods # {} /\ IsFiniteSet(Threads) /\ MaxAsks \in Nat
    /\ MaxQuantity \in Nat \ {0}

\* Three names, two of them alike but for the case.
MCNames == {"Dairy", "dairy", "Fruit"}

MCKeyOf == [n \in MCNames |-> IF n = "Fruit" THEN 2 ELSE 1]

MCRowOf == r1 :> [list |-> l1, food |-> fa, category |-> "Dairy"] @@
           r2 :> [list |-> l1, food |-> fa, category |-> "Fruit"]

MCOrders == {<<"Fruit", "dairy", "Dairy">>}

MCAliases == {<<>>, <<[of |-> "Dairy", as |-> "Fruit"],
                    [of |-> "Fruit", as |-> "Fruit"]>>}

\* Three requests and no change of the rows at Mealie, or two that do not
\* overlap, and a change.
PrintInit ==
    \/ count = 0 /\ changes = MaxChanges
    \/ count = 1 /\ changes = 0

PrintRests ==
    count = 0 /\ changes = 0 /\ doc["overrides"] = [l \in Lists |-> {}]

\* Either a change of the lists at Mealie or a call of it that fails.
ShopInit == mealie = {l1} /\ moves + failures = 1

ShopRests == moves = 0 /\ rows = [r \in Rows |-> S!None] /\ legacy = S!None

MCInit ==
    /\ part \in {"print", "shop", "cache"}
    /\ Init /\ IF part = "print" THEN PrintInit ELSE PrintRests
    /\ S!Init /\ ShopInit /\ (part = "shop" \/ ShopRests)
    /\ C!Init

MCNext ==
    /\ UNCHANGED part
    /\ \/ part = "print" /\ Next /\ UNCHANGED <<shopVars, cacheVars>>
       \/ part = "shop" /\ S!Next /\ UNCHANGED <<vars, cacheVars>>
       \/ part = "cache" /\ C!Next /\ UNCHANGED <<vars, shopVars>>

\* Requests and threads are alike.
Alike == Permutations({p1, p2}) \cup Permutations({t1, t2})

MCSpec == MCInit /\ [][MCNext]_all

-----------------------------------------------------------------------------
\* Lists are printed as they were edited (ListPrint).
PrintsCorrect == part = "print" => ListsCorrect

\* The numbers and the default list of the dashboard (ShoppingLists).
DashboardCorrect == part = "shop" => S!DashboardCorrect

\* A saved Food is seen by the next page (CatalogCache).
CacheCorrect == part = "cache" => C!CacheCorrect

\* Loads of a catalog do not overtake each other (CatalogCache).
CatalogsAdvance == part = "cache" => C!NoneOlder
=============================================================================
