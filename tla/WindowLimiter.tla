--------------------------- MODULE WindowLimiter ---------------------------
(***************************************************************************)
(* What a sliding window promises its clients, and nothing of how: every   *)
(* grant is remembered, and a request is granted when fewer than Limit     *)
(* grants fall into the Window that ends at its timestamp, and denied      *)
(* otherwise.  That is promised to requests that arrive in the order of    *)
(* timestamps that can be trusted; after one that does not, requests may   *)
(* be decided either way.  An answer may be lost on its way, and a store   *)
(* that loses its data begins anew.                                        *)
(***************************************************************************)
EXTENDS Naturals, FiniteSets

CONSTANTS
    Request,    \* the requests, one each
    Time,       \* the timestamps they may carry
    Limit,      \* the grants a window has room for
    Window      \* the length of the window

VARIABLES
    granted,    \* the grants, as <<timestamp, request>>
    newest,     \* the newest timestamp seen
    trusted,    \* whether the timestamps could be trusted so far
    answer      \* what each request was told, if anything

Later(a, b) == IF a > b THEN a ELSE b

\* Whether the window that ends at `now` has room for one more grant.
HasRoom(now) == Cardinality({g \in granted : g[1] + Window > now}) < Limit

Tell(r, verdict) == answer' = [answer EXCEPT ![r] = verdict] \/ UNCHANGED answer

Init ==
    /\ granted = {}
    /\ newest = 0
    /\ trusted = TRUE
    /\ answer = [r \in Request |-> "none"]

\* A request whose decision is promised comes after all others in time.
Promised(at) == trusted /\ at >= newest

Allow(r, at) ==
    /\ trusted' \in BOOLEAN
    /\ trusted' => Promised(at) /\ HasRoom(at)
    /\ granted' = granted \cup {<<at, r>>}
    /\ newest' = Later(newest, at)
    /\ Tell(r, "granted")

Deny(r, at) ==
    /\ trusted' \in BOOLEAN
    /\ trusted' => Promised(at) /\ ~HasRoom(at)
    /\ newest' = Later(newest, at)
    /\ Tell(r, "denied")
    /\ UNCHANGED granted

Forgive == granted' = {} /\ newest' = 0 /\ trusted' = TRUE /\ UNCHANGED answer

Next ==
    \/ \E r \in Request, at \in Time : Allow(r, at) \/ Deny(r, at)
    \/ Forgive

Spec == Init /\ [][Next]_<<granted, newest, trusted, answer>>

=============================================================================
