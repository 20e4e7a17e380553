----------------------------- MODULE AdminLists -----------------------------
(***************************************************************************)
(* The admin pages that keep their data in the browser: seats, tickets,    *)
(* notices and switches, each a list in localStorage under the scope       *)
(* (project) of the session (workspace-admin.ts, pages/Admin.tsx).         *)
(*                                                                         *)
(* A page reads its list when it is opened and from then on saves its own  *)
(* copy, changed, under the scope of the moment: another tab, another      *)
(* scope or an answer that comes late saves what has been overtaken.       *)
(***************************************************************************)
EXTENDS Naturals

CONSTANTS
    Tabs,      \* browser tabs, which share localStorage
    Scopes,    \* projects
    Entries,   \* what a user adds: a seat, a ticket, a notice, a switch
    MaxSaves,  \* bound: changes made or asked for
    MaxVisits  \* bound: pages opened, and sessions changed

ASSUME ListsAssumption == MaxSaves \in Nat /\ MaxVisits \in Nat
ASSUME SeedAssumption == Entries \intersect {"owner", "snapshot"} = {}

ListKinds == {"seats", "tickets", "notices", "prefs"}
\* The seat of the user, an owner, and the first notices.
Seeds == {"owner", "snapshot"}
\* What becomes of an entry: a seat is made an owner's or another's, a ticket is
\* moved on or opened again, a notice is read; a switch is there when it is on.
Marks == {"new", "changed"}
Lists == SUBSET ((Entries \union Seeds) \X Marks)

VARIABLES
    stored,   \* localStorage: scope, kind -> list
    scope,    \* the scope of each tab's session
    opened,   \* the list page each tab shows
    copy,     \* ... and its copy
    awaited,  \* the API's answers awaited: a role, or the usage
    saved,    \* history: scope, kind -> what the changes saved so far come to
    clashed,  \* history: a list was open twice, a scope changed under a page,
              \* or seats were opened or changed while a role was asked for
    saves, visits

listVars == <<stored, scope, opened, copy, awaited, saved, clashed, saves, visits>>

ListsTypeOK ==
    /\ stored \in [Scopes -> [ListKinds -> Lists]] /\ scope \in [Tabs -> Scopes]
    /\ opened \in [Tabs -> ListKinds \union {"none"}] /\ copy \in [Tabs -> Lists]
    /\ awaited \subseteq [what : {"role", "usage"}, tab : Tabs, of : Scopes, seats : Lists,
                          mounted : BOOLEAN, who : Entries \union {"nobody"}, mark : Marks]
    /\ saved \in [Scopes -> [ListKinds -> SUBSET (Entries \X Marks)]]
    /\ clashed \in BOOLEAN /\ saves \in 0 .. MaxSaves /\ visits \in 0 .. MaxVisits

\* The entry of e taken away, added or changed; entries marked as read.
TakenOut(list, e) == {i \in list : i[1] # e}
PutIn(list, e, m) == TakenOut(list, e) \union {<<e, m>>}
ReadAll(list, read) == {IF i[1] \in read THEN <<i[1], "changed">> ELSE i : i \in list}
Names(list) == {i[1] : i \in list}
StillNew(list) == {n \in Names(list) : <<n, "new">> \in list}

\* A request of page t, which keeps the scope and the seats of its moment.
AskUsage(t, s) ==
    [what |-> "usage", tab |-> t, of |-> s, seats |-> {}, mounted |-> TRUE,
     who |-> "nobody", mark |-> "new"]

\* The page of tab t is left: an answer finds nothing to show itself on.
Left(t) == {IF q.tab = t THEN [q EXCEPT !.mounted = FALSE] ELSE q : q \in awaited}

ListsInit ==
    /\ stored = [s \in Scopes |-> [k \in ListKinds |-> {}]]
    /\ scope \in [Tabs -> Scopes]
    /\ opened = [t \in Tabs |-> "none"] /\ copy = [t \in Tabs |-> {}]
    /\ awaited = {} /\ saved = stored /\ clashed = FALSE /\ saves = 0 /\ visits = 0

-----------------------------------------------------------------------------
\* A new ticket writes the notices too.
Touching(k) == IF k \in {"tickets", "notices"} THEN {"tickets", "notices"} ELSE {k}

\* loadSeats seeds an empty list with the user's own seat.
Loaded(s, k) ==
    IF k = "seats" /\ stored[s][k] = {} THEN {<<"owner", "changed">>} ELSE stored[s][k]

\* A role is being asked for in this scope.
RoleAwaited(s) == \E q \in awaited : q.what = "role" /\ q.of = s

OpenPage(t, k) ==
    /\ opened[t] # k /\ visits < MaxVisits
    /\ visits' = visits + 1
    /\ opened' = [opened EXCEPT ![t] = k]
    /\ copy' = [copy EXCEPT ![t] = Loaded(scope[t], k)]
    /\ stored' = IF k = "seats" THEN [stored EXCEPT ![scope[t]][k] = Loaded(scope[t], k)]
                 ELSE stored
    /\ clashed' = \/ clashed
                  \/ k = "seats" /\ RoleAwaited(scope[t])
                  \/ \E u \in Tabs \ {t} : opened[u] \in Touching(k) /\ scope[u] = scope[t]
    /\ awaited' = Left(t) \union (IF k = "notices" THEN {AskUsage(t, scope[t])} ELSE {})
    /\ UNCHANGED <<scope, saved, saves>>

ClosePage(t) ==
    /\ opened[t] # "none"
    /\ opened' = [opened EXCEPT ![t] = "none"] /\ copy' = [copy EXCEPT ![t] = {}]
    /\ awaited' = Left(t)
    /\ UNCHANGED <<stored, scope, saved, clashed, saves, visits>>

\* Another session in this tab: useScope gives the page another scope, the
\* page keeps its copy, and the notices ask for the usage again.
ChangeScope(t, s) ==
    /\ s # scope[t] /\ visits < MaxVisits
    /\ visits' = visits + 1
    /\ scope' = [scope EXCEPT ![t] = s]
    /\ clashed' = (clashed \/ opened[t] # "none")
    /\ awaited' = awaited \union (IF opened[t] = "notices" THEN {AskUsage(t, s)} ELSE {})
    /\ UNCHANGED <<stored, opened, copy, saved, saves>>

-----------------------------------------------------------------------------
\* setState and save, of the list on screen.
Persist(t, list) ==
    /\ saves < MaxSaves /\ saves' = saves + 1
    /\ copy' = [copy EXCEPT ![t] = list]

AddSeat(t, e) ==
    /\ opened[t] = "seats" /\ e \notin Names(copy[t])
    /\ Persist(t, PutIn(copy[t], e, "new"))
    /\ stored' = [stored EXCEPT ![scope[t]]["seats"] = copy'[t]]
    /\ saved' = [saved EXCEPT ![scope[t]]["seats"] = PutIn(@, e, "new")]
    /\ clashed' = (clashed \/ RoleAwaited(scope[t]))
    /\ UNCHANGED <<scope, opened, awaited, visits>>

\* Not the seat of an owner.
RemoveSeat(t, e) ==
    /\ opened[t] = "seats" /\ <<e, "new">> \in copy[t]
    /\ Persist(t, TakenOut(copy[t], e))
    /\ stored' = [stored EXCEPT ![scope[t]]["seats"] = copy'[t]]
    /\ saved' = [saved EXCEPT ![scope[t]]["seats"] = TakenOut(@, e)]
    /\ clashed' = (clashed \/ RoleAwaited(scope[t]))
    /\ UNCHANGED <<scope, opened, awaited, visits>>

\* changeRole: the seats and the scope are those of the click, be the answer
\* when it may; another role may be asked for meanwhile.
AskRole(t, e, m) ==
    /\ opened[t] = "seats" /\ e \in Names(copy[t])
    /\ saves < MaxSaves /\ saves' = saves + 1
    /\ awaited' = awaited \union
         {[what |-> "role", tab |-> t, of |-> scope[t], seats |-> copy[t],
           mounted |-> TRUE, who |-> e, mark |-> m]}
    /\ clashed' = (clashed \/ RoleAwaited(scope[t]))
    /\ UNCHANGED <<stored, scope, opened, copy, saved, visits>>

RoleAnswered(q) ==
    /\ q.what = "role"
    /\ LET next == PutIn(q.seats, q.who, q.mark)
       IN  /\ stored' = [stored EXCEPT ![q.of]["seats"] = next]
           /\ copy' = IF q.mounted THEN [copy EXCEPT ![q.tab] = next] ELSE copy
    /\ saved' = [saved EXCEPT ![q.of]["seats"] = PutIn(@, q.who, q.mark)]
    /\ awaited' = awaited \ {q}
    /\ UNCHANGED <<scope, opened, clashed, saves, visits>>

\* An error of either request.
Refused(q) ==
    /\ awaited' = awaited \ {q}
    /\ UNCHANGED <<stored, scope, opened, copy, saved, clashed, saves, visits>>

\* A ticket, and a notice of it before those there are.
OpenTicket(t, e) ==
    /\ opened[t] = "tickets" /\ e \notin Names(copy[t])
    /\ Persist(t, PutIn(copy[t], e, "new"))
    /\ stored' = [stored EXCEPT ![scope[t]]["tickets"] = copy'[t],
                                ![scope[t]]["notices"] = PutIn(@, e, "new")]
    /\ saved' = [saved EXCEPT ![scope[t]]["tickets"] = PutIn(@, e, "new"),
                              ![scope[t]]["notices"] = PutIn(@, e, "new")]
    /\ UNCHANGED <<scope, opened, awaited, clashed, visits>>

\* The next status of a ticket: open, pending, closed, open.
MoveTicket(t, e, m) ==
    /\ opened[t] = "tickets" /\ e \in Names(copy[t])
    /\ m = "new" => <<e, "changed">> \in copy[t]
    /\ Persist(t, PutIn(copy[t], e, m))
    /\ stored' = [stored EXCEPT ![scope[t]]["tickets"] = copy'[t]]
    /\ saved' = [saved EXCEPT ![scope[t]]["tickets"] = PutIn(@, e, m)]
    /\ UNCHANGED <<scope, opened, awaited, clashed, visits>>

\* One notice is read, or all of them.
MarkRead(t, read) ==
    /\ opened[t] = "notices"
    /\ Persist(t, ReadAll(copy[t], read))
    /\ stored' = [stored EXCEPT ![scope[t]]["notices"] = copy'[t]]
    /\ saved' = [saved EXCEPT ![scope[t]]["notices"] = ReadAll(@, read)]
    /\ UNCHANGED <<scope, opened, awaited, clashed, visits>>

\* The usage is there: the first notices are put before those stored by now.
UsageAnswered(q) ==
    /\ q.what = "usage"
    /\ awaited' = awaited \ {q}
    /\ IF "snapshot" \in Names(stored[q.of]["notices"]) THEN UNCHANGED <<stored, copy>>
       ELSE /\ stored' = [stored EXCEPT ![q.of]["notices"] = @ \union {<<"snapshot", "new">>}]
            /\ copy' = IF q.mounted
                       THEN [copy EXCEPT ![q.tab] = stored'[q.of]["notices"]] ELSE copy
    /\ UNCHANGED <<scope, opened, saved, clashed, saves, visits>>

\* update: one switch, and all as the page has them.
Switch(t, e) ==
    /\ opened[t] = "prefs"
    /\ LET on == e \notin Names(copy[t])
           Turned(list) == IF on THEN PutIn(list, e, "new") ELSE TakenOut(list, e)
       IN  /\ Persist(t, Turned(copy[t]))
           /\ saved' = [saved EXCEPT ![scope[t]]["prefs"] = Turned(@)]
    /\ stored' = [stored EXCEPT ![scope[t]]["prefs"] = copy'[t]]
    /\ UNCHANGED <<scope, opened, awaited, clashed, visits>>

ListsNext ==
    \/ \E t \in Tabs :
        \/ \E k \in ListKinds : OpenPage(t, k)
        \/ \E s \in Scopes : ChangeScope(t, s)
        \/ \E e \in Entries :
            \/ AddSeat(t, e) \/ RemoveSeat(t, e) \/ OpenTicket(t, e) \/ Switch(t, e)
            \/ \E m \in Marks : AskRole(t, e, m) \/ MoveTicket(t, e, m)
        \/ \E read \in {{n} : n \in StillNew(copy[t])} \union {Names(copy[t])} : MarkRead(t, read)
        \/ ClosePage(t)
    \/ \E q \in awaited : RoleAnswered(q) \/ UsageAnswered(q) \/ Refused(q)

ListsSpec == ListsInit /\ [][ListsNext]_listVars

-----------------------------------------------------------------------------
\* What was saved in a workspace is there as it was saved and nowhere else,
\* unless its list was open twice, a session changed under a page, or the seats
\* were opened, changed or given another role while a role was being asked for.
ListsKeepWhatWasSaved ==
    \/ clashed
    \/ \A s \in Scopes, k \in ListKinds :
        {i \in stored[s][k] : i[1] \in Entries} = saved[s][k]

=============================================================================
