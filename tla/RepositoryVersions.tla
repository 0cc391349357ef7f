-------------------------- MODULE RepositoryVersions --------------------------
(***************************************************************************)
(* What a client of projd sees of a checkout: the version of the           *)
(* repository in its row (projd/model CheckoutStatus), or no row.          *)
(***************************************************************************)
EXTENDS Integers, FiniteSets

CONSTANTS
    Checkouts,  \* the roots of repositories
    MaxVersion, \* bound: versions of a repository
    MaxTasks    \* bound: refreshes at one time

ASSUME VersionsAssumption == MaxVersion \in Nat \ {0} /\ MaxTasks \in Nat
ASSUME CheckoutsFinite == IsFiniteSet(Checkouts)

VARIABLE row            \* version in the checkout row of each root, or None

None == -1              \* no checkout row, no object

(* A refresh commits what it read while no other refresh of its root could *)
(* commit: the row never goes back to an older version of the repository,  *)
(* however refreshes of the loop, of clients and of an earlier             *)
(* registration of the same root overlap (refresh_checkout in main.rs).    *)
NotOlder == \A r \in Checkouts : row[r] # None /\ row'[r] # None => row'[r] >= row[r]
NeverOlder == [][NotOlder]_row
=============================================================================
