------------------------------- MODULE Listing --------------------------------
(***************************************************************************)
(* Listing a collection page by page over HTTP while others change it: the *)
(* cursors of internal/chat/service.go, the keyset queries of postgres.go, *)
(* members_postgres.go, channels_postgres.go and readstate_postgres.go,    *)
(* and the limiter that each request passes first (chatUser).              *)
(*                                                                         *)
(* Rows are read in the order of a key and, where keys are equal, of an    *)
(* id.  Whether a query sorts up or down makes no difference here: keys    *)
(* are positions in the order it reads.                                    *)
(***************************************************************************)
EXTENDS RequestLimiter, Integers

CONSTANTS
    Items,          \* ids
    MaxKey,         \* bound of the model on the positions
    MaxMoves,       \* bound of the model on the moves
    PageSize,       \* the limit parameter
    Mine            \* the limiter's key of the client that lists

ASSUME ListingAssumption ==
    /\ Items \subseteq Nat /\ IsFiniteSet(Items)
    /\ MaxKey \in Nat \ {0} /\ MaxMoves \in Nat
    /\ PageSize \in Nat \ {0}
    /\ Mine \in Keys

(* The listings: whether a row that stays can change its place (a Channel  *)
(* by its position, a Thread and a Direct Channel by its last Message, a   *)
(* membership by leaving and joining again), and where the caller's access *)
(* is checked.                                                             *)
ListMessages == [moves |-> FALSE, access |-> "if empty"]
SearchMessages == [moves |-> FALSE, access |-> "if empty"]
ListGuilds == [moves |-> TRUE, access |-> "own"]
ListMembers == [moves |-> TRUE, access |-> "first"]
ListChannels == [moves |-> TRUE, access |-> "if empty"]
ListThreads == [moves |-> TRUE, access |-> "if empty"]
ListDirectChannels == [moves |-> TRUE, access |-> "own"]

Listings == {ListMessages, SearchMessages, ListGuilds, ListMembers, ListChannels,
             ListThreads, ListDirectChannels}

VARIABLES
    listing,        \* the collection the client lists
    there,          \* rows that the query finds
    key,            \* their place in the order
    access,         \* the caller may see them
    cursor,         \* next_cursor of the last page
    client,         \* "asks", "waits" for the page, or what it was told
    seen,           \* how often an item was returned
    steady,         \* items that were there, unmoved, all along (history)
    moves           \* moves so far, for the bound

listingVars == <<listing, there, key, access, cursor, client, seen, steady, moves>>
vars == <<limiterVars, listingVars>>

Start == <<0, -1>>              \* no cursor: before every row

Init ==
    /\ LimiterInit
    /\ listing \in Listings
    /\ there \in SUBSET Items
    /\ key \in [Items -> 1 .. MaxKey]
    /\ access = TRUE
    /\ cursor = Start
    /\ client = "asks"
    /\ seen = [i \in Items |-> 0]
    /\ steady = there
    /\ moves = 0

-----------------------------------------------------------------------------
(* The collection                                                          *)

(* A row is inserted, with any key: transactions commit in another order   *)
(* than they take their time.  A Message edited to match a search again is *)
(* found at its old place.                                                 *)
Appear(i) ==
    /\ i \notin there
    /\ there' = there \cup {i}
    /\ UNCHANGED <<limiterVars, listing, key, access, cursor, client, seen, steady, moves>>

Vanish(i) ==
    /\ i \in there
    /\ there' = there \ {i}
    /\ steady' = steady \ {i}
    /\ UNCHANGED <<limiterVars, listing, key, access, cursor, client, seen, moves>>

Move(i, k) ==
    /\ listing.moves
    /\ moves < MaxMoves
    /\ i \in there /\ key[i] # k
    /\ key' = [key EXCEPT ![i] = k]
    /\ steady' = steady \ {i}
    /\ moves' = moves + 1
    /\ UNCHANGED <<limiterVars, listing, there, access, cursor, client, seen>>

(* The caller leaves the Guild; it does not come back while it lists.      *)
LoseAccess ==
    /\ access /\ listing.access # "own"
    /\ access' = FALSE
    /\ UNCHANGED <<limiterVars, listing, there, key, cursor, client, seen, steady, moves>>

-----------------------------------------------------------------------------
(* A request of the client                                                 *)

Asks == client = "asks"

Before(p, q) == p[1] < q[1] \/ (p[1] = q[1] /\ p[2] < q[2])
PlaceOf(i) == <<key[i], i>>

(* SELECT ... WHERE (key, id) > cursor ORDER BY key, id LIMIT n: the rows  *)
(* of which fewer than n come first.  All queries but that of ListMembers, *)
(* which has asked before, join the caller's membership.                   *)
Visible == access \/ listing.access = "first"
Rest == {i \in there : Visible /\ Before(cursor, PlaceOf(i))}
FirstOf(n) == {i \in Rest : Cardinality({j \in Rest : Before(PlaceOf(j), PlaceOf(i))}) < n}

(* One row more than the page is read, to know whether there are more.     *)
HasMore == Cardinality(FirstOf(PageSize + 1)) > PageSize
Page == FirstOf(PageSize)

(* Mutant: the place of the row read beyond the page.                      *)
NextCursorBeyond ==
    PlaceOf(CHOOSE i \in FirstOf(PageSize + 1) :
              \A j \in FirstOf(PageSize + 1) \ {i} : Before(PlaceOf(j), PlaceOf(i)))
NextCursor == PlaceOf(CHOOSE i \in Page : \A j \in Page \ {i} : Before(PlaceOf(j), PlaceOf(i)))

(* 429: the client asks again.                                             *)
RefuseRequest ==
    /\ Asks
    /\ Refuse(Mine)
    /\ UNCHANGED listingVars

AdmitRequest ==
    /\ Asks
    /\ Admit(Mine)
    /\ client' = IF listing.access = "first" /\ ~access THEN "not found" ELSE "waits"
    /\ UNCHANGED <<listing, there, key, access, cursor, seen, steady, moves>>

Denied == Rest = {} /\ ~access /\ listing.access = "if empty"

ReturnPage ==
    /\ client = "waits"
    /\ ~Denied
    /\ seen' = [i \in Items |-> IF i \in Page THEN seen[i] + 1 ELSE seen[i]]
    /\ IF HasMore
       THEN client' = "asks" /\ cursor' = NextCursor
       ELSE client' = "complete" /\ UNCHANGED cursor
    /\ UNCHANGED <<limiterVars, listing, there, key, access, steady, moves>>

ReturnNotFound ==
    /\ client = "waits"
    /\ Denied
    /\ client' = "not found"
    /\ UNCHANGED <<limiterVars, listing, there, key, access, cursor, seen, steady, moves>>

-----------------------------------------------------------------------------
(* Other requests, and time                                                *)

OtherRequest(k) ==
    /\ k # Mine
    /\ Admit(k) \/ Refuse(k) \/ Reset(k)
    /\ UNCHANGED listingVars

TimePasses ==
    /\ Tick
    /\ UNCHANGED listingVars

Next ==
    \/ \E i \in Items : Appear(i) \/ Vanish(i) \/ \E k \in 1 .. MaxKey : Move(i, k)
    \/ LoseAccess
    \/ RefuseRequest \/ AdmitRequest \/ ReturnPage \/ ReturnNotFound
    \/ \E k \in Keys : OtherRequest(k)
    \/ TimePasses

(* The client asks until it is answered, the server answers, time passes.  *)
Fairness ==
    /\ SF_vars(AdmitRequest)
    /\ WF_vars(ReturnPage) /\ WF_vars(ReturnNotFound)
    /\ WF_vars(TimePasses)

Spec == Init /\ [][Next]_vars /\ Fairness

-----------------------------------------------------------------------------
(* Properties                                                              *)

Answers == {"complete", "not found"}

(* A listing that ends without an error has returned everything that was   *)
(* there and kept its place all along; nothing that keeps its place is     *)
(* returned twice, deleted rows and equal keys notwithstanding.            *)
NothingIsSkipped ==
    /\ client = "complete" => \A i \in steady : seen[i] = 1
    /\ \A i \in Items : (i \in steady \/ ~listing.moves) => seen[i] <= 1

(* A client that goes on asking reaches the end of the listing, unless     *)
(* others keep the limiter's table full with keys of theirs.               *)
Starved == ~Fits(Mine)
ListingEnds == <>[]~Starved => <>(client \in Answers)
=============================================================================
