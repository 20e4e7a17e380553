--------------------------- MODULE InlineDelivery ---------------------------
(***************************************************************************)
(* dispatchWebhooks in an API that has no Redis: the request that made the *)
(* verdict delivers to each hook itself, at once and again after a wait    *)
(* and a longer one, and then goes on to the next hook.  Nothing is queued: *)
(* what the three attempts or a crash leave open, nobody comes back to.    *)
(***************************************************************************)
EXTENDS Naturals, FiniteSets

CONSTANTS
    Dispatches,   \* verdicts that are announced
    LastTarget,   \* number of hooks in the store
    Unsubscribed, \* hooks for other events
    Unsafe,       \* hooks whose url is refused
    MaxCuts       \* bound: rejected calls of the store, and restarts

Targets == 1 .. LastTarget   \* the hooks, in the store's order

ASSUME TargetsAssumption ==
    /\ LastTarget \in Nat
    /\ Unsubscribed \subseteq Targets /\ Unsafe \subseteq Targets /\ MaxCuts \in Nat

VARIABLES
    dispatchAt, \* what the request does next
    target,     \* the hook it is at
    attempt,    \* the attempt at it, from zero
    row,        \* status of each row of webhook_deliveries
    tries,      \* ... and its attempts
    posted,     \* history: POSTs made for a row
    taken,      \* history: POSTs the receiver took for a row
    billed,     \* webhook usage
    cut         \* history: dispatches ended by a rejection or a restart

inlineVars == <<dispatchAt, target, attempt, row, tries, posted, taken, billed, cut>>

Rows == Dispatches \X Targets
InlineTries == 3   \* BACKOFF_MS.slice(0, 3)

InlineTypeOK ==
    /\ dispatchAt \in [Dispatches -> {"idle", "hook", "post", "delivered",
                                      "bill", "retrying", "over"}]
    /\ target \in [Dispatches -> Nat \ {0}] /\ attempt \in [Dispatches -> 0 .. InlineTries]
    /\ row \in [Rows -> {"absent", "pending", "retrying", "delivered"}]
    /\ tries \in [Rows -> 0 .. InlineTries] /\ posted \in [Rows -> Nat]
    /\ taken \in [Rows -> Nat] /\ billed \in Nat /\ cut \subseteq Dispatches

InlineInit ==
    /\ dispatchAt = [d \in Dispatches |-> "idle"] /\ target = [d \in Dispatches |-> 1]
    /\ attempt = [d \in Dispatches |-> 0]
    /\ row = [r \in Rows |-> "absent"] /\ tries = [r \in Rows |-> 0]
    /\ posted = [r \in Rows |-> 0] /\ taken = [r \in Rows |-> 0]
    /\ billed = 0 /\ cut = {}

-----------------------------------------------------------------------------
MoveOn(d, here, next) ==
    dispatchAt[d] = here /\ dispatchAt' = [dispatchAt EXCEPT ![d] = next]

NextTarget(d) == target' = [target EXCEPT ![d] = @ + 1]
RowOf(d) == <<d, target[d]>>

Announce(d) ==
    /\ MoveOn(d, "idle", "hook")
    /\ UNCHANGED <<target, attempt, row, tries, posted, taken, billed, cut>>

\* Another event, or an address that isSafeWebhookUrl refuses.
PassOver(d) ==
    /\ target[d] \in Unsubscribed \union Unsafe
    /\ MoveOn(d, "hook", "hook") /\ NextTarget(d)
    /\ UNCHANGED <<attempt, row, tries, posted, taken, billed, cut>>

EndDispatch(d) ==
    /\ target[d] \notin Targets /\ MoveOn(d, "hook", "over")
    /\ UNCHANGED <<target, attempt, row, tries, posted, taken, billed, cut>>

\* enqueueWebhook without Redis: the row.
InsertRow(d) ==
    /\ target[d] \in Targets \ (Unsubscribed \union Unsafe)
    /\ MoveOn(d, "hook", "post")
    /\ row' = [row EXCEPT ![RowOf(d)] = "pending"]
    /\ attempt' = [attempt EXCEPT ![d] = 0]
    /\ UNCHANGED <<target, tries, posted, taken, billed, cut>>

\* deliverOnce: a receiver may take an event and answer too late.
PostTo(d) ==
    \E arrived, confirmed \in BOOLEAN :
        /\ confirmed => arrived
        /\ MoveOn(d, "post", IF confirmed THEN "delivered" ELSE "retrying")
        /\ posted' = [posted EXCEPT ![RowOf(d)] = @ + 1]
        /\ taken' = [taken EXCEPT ![RowOf(d)] = @ + IF arrived THEN 1 ELSE 0]
        /\ UNCHANGED <<target, attempt, row, tries, billed, cut>>

UpdateRow(d, status) ==
    /\ row' = [row EXCEPT ![RowOf(d)] = status]
    /\ tries' = [tries EXCEPT ![RowOf(d)] = attempt[d] + 1]

UpdateDelivered(d) ==
    /\ MoveOn(d, "delivered", "bill") /\ UpdateRow(d, "delivered")
    /\ UNCHANGED <<target, attempt, posted, taken, billed, cut>>

Bill(d) ==
    /\ MoveOn(d, "bill", "hook") /\ NextTarget(d)
    /\ billed' = billed + 1
    /\ UNCHANGED <<attempt, row, tries, posted, taken, cut>>

\* A bug to try: the loop's index and the attempts recorded differ by one.
OneTryFewer(d) == attempt[d] + 2 < InlineTries

TriesLeft(d) == attempt[d] + 1 < InlineTries

\* The row waits for an eighth attempt; the loop makes three.
UpdateRetrying(d) ==
    /\ IF TriesLeft(d)
       THEN MoveOn(d, "retrying", "post") /\ UNCHANGED target
       ELSE MoveOn(d, "retrying", "hook") /\ NextTarget(d)
    /\ UpdateRow(d, "retrying")
    /\ attempt' = [attempt EXCEPT ![d] = @ + 1]
    /\ UNCHANGED <<posted, taken, billed, cut>>

Working(d) == dispatchAt[d] \notin {"idle", "over"}

\* A call of the store rejects, and the verify request answers 500.
StoreRejects(d) ==
    /\ Cardinality(cut) < MaxCuts
    /\ \E here \in {"hook", "delivered", "bill", "retrying"} : MoveOn(d, here, "over")
    /\ cut' = cut \union {d}
    /\ UNCHANGED <<target, attempt, row, tries, posted, taken, billed>>

Restart ==
    /\ Cardinality(cut) < MaxCuts
    /\ \E d \in Dispatches : Working(d)
    /\ cut' = cut \union {d \in Dispatches : Working(d)}
    /\ dispatchAt' = [d \in Dispatches |-> IF Working(d) THEN "over" ELSE dispatchAt[d]]
    /\ UNCHANGED <<target, attempt, row, tries, posted, taken, billed>>

InlineNext ==
    \/ Restart
    \/ \E d \in Dispatches :
        \/ Announce(d) \/ PassOver(d) \/ EndDispatch(d) \/ InsertRow(d) \/ PostTo(d)
        \/ UpdateDelivered(d) \/ Bill(d) \/ UpdateRetrying(d) \/ StoreRejects(d)

InlineSpec == InlineInit /\ [][InlineNext]_inlineVars

-----------------------------------------------------------------------------
AtRow(r) == Working(r[1]) /\ target[r[1]] = r[2]

\* A row that no request works at is delivered, or was tried three times without
\* an answer in time, unless its request was cut short; a delivered row was taken
\* by the receiver, no row counts a POST that was not made, and the workspace is
\* billed once for each delivered row that nothing cut short.
InlineRowsAreTried ==
    /\ \A r \in Rows :
        /\ ~AtRow(r) /\ row[r] \in {"pending", "retrying"} =>
               \/ r[1] \in cut
               \/ row[r] = "retrying" /\ tries[r] = InlineTries /\ posted[r] = InlineTries
        /\ row[r] = "delivered" => taken[r] > 0
        /\ tries[r] <= posted[r]
        /\ dispatchAt[r[1]] = "over" /\ r[1] \notin cut
               /\ r[2] \notin Unsubscribed \union Unsafe => row[r] # "absent"
    /\ LET delivered == {r \in Rows : row[r] = "delivered"}
           unsettled == {r \in delivered : r[1] \in cut \/ AtRow(r)}
       IN  /\ billed <= Cardinality(delivered)
           /\ billed >= Cardinality(delivered \ unsettled)

=============================================================================
