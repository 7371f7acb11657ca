---------------------------- MODULE DashboardPages ----------------------------
(* The lists that the dashboard's API serves page by page (dashboard/main.py) *)
(* while the collector writes to the table they are read from.  A request     *)
(* counts the items and reads one page in statements of their own; a client   *)
(* that wants all asks for page after page until one is not full.  Of a row,  *)
(* what decides about its place and what keeps it from a list is modelled.    *)
(* A row written late may be older than others, and rows may have the same    *)
(* timestamp: some writers give whole seconds.  The lists are ordered by the  *)
(* timestamp alone, so each statement may put equal ones in another order.    *)
(* The filter of the severity, the columns and the clamping of limit and      *)
(* offset are left out.                                                       *)
EXTENDS Naturals, FiniteSetsExt, Functions

CONSTANTS Visits,    \* session_ids
          Watched,   \* the one whose events are listed
          Ids,       \* event_ids, of an event without a timestamp of its own one per
                     \* delivery: it is stored again
          Hidden,    \* the lists a row may be kept from: "sessions" if its address is
                     \* not routable or its session none, "timeline" if it is a
                     \* command.response
          LastStamp, \* bound: timestamps
          PageLimit  \* limit

ASSUME PagesAssumption ==
    /\ Hidden \subseteq SUBSET {"sessions", "timeline"}
    /\ LastStamp \in Nat /\ PageLimit \in Nat \ {0}

VARIABLES table,   \* decoy_events
          before,  \* history: the table when the client began
          walk     \* the client: its list, where it is, offset, the last total,
                   \* how many items it got, and which

pagesVars == <<table, before, walk>>

Rows == [id : Ids, sid : Visits, ts : 1 .. LastStamp, hidden : Hidden]
Lists == {"sessions", "timeline", "recent"}

-----------------------------------------------------------------------------
(* What the statements read, of a table R.                                    *)

\* get_sessions: WHERE, GROUP BY session_id.
Visible(R, sid) == {r \in R : r.sid = sid /\ "sessions" \notin r.hidden}
Listed(R) == {sid \in Visits : Visible(R, sid) # {}}

\* get_session_events.
Timeline(R) == {r \in R : r.sid = Watched /\ "timeline" \notin r.hidden}

Items(list, R) ==
    CASE list = "sessions" -> Listed(R) [] list = "timeline" -> Timeline(R) [] list = "recent" -> R

\* Mutant: ORDER BY MIN(timestamp).
FirstStampOf(list, R, x) ==
    IF list = "sessions" THEN Min({r.ts : r \in Visible(R, x)}) ELSE x.ts
\* ORDER BY MAX(timestamp) DESC, timestamp ASC, timestamp DESC.
StampOf(list, R, x) ==
    IF list = "sessions" THEN Max({r.ts : r \in Visible(R, x)}) ELSE x.ts

\* The items that come before one of them.
Ahead(list, R, x) ==
    {y \in Items(list, R) :
        IF list = "timeline" THEN StampOf(list, R, y) < StampOf(list, R, x)
                             ELSE StampOf(list, R, y) > StampOf(list, R, x)}
Rank(list, R, x) == Cardinality(Ahead(list, R, x))

\* The orders in which a statement may have the items: place |-> from 0.
Orders(list, R) ==
    {place \in Bijection(Items(list, R), 0 .. Cardinality(Items(list, R)) - 1) :
        \A x, y \in Items(list, R) : x \in Ahead(list, R, y) => place[x] < place[y]}

\* LIMIT and OFFSET.
Page(place, offset) ==
    {x \in DOMAIN place : place[x] >= offset /\ place[x] < offset + PageLimit}

-----------------------------------------------------------------------------
PagesInit ==
    /\ table = {} /\ before = {}
    /\ walk = [list |-> "sessions", at |-> "idle", offset |-> 0, total |-> 0, got |-> 0, seen |-> {}]

\* The collector's INSERT: nothing if the event is in the table.
Store(row) ==
    /\ \A r \in table : r.id # row.id
    /\ table' = table \cup {row}
    /\ UNCHANGED <<before, walk>>

\* A client starts with the first page of a list.
BeginWalk(list) ==
    /\ walk.at = "idle"
    /\ before' = table
    /\ walk' = [walk EXCEPT !.list = list, !.at = "asking"]
    /\ UNCHANGED table

\* SELECT COUNT.
CountItems ==
    /\ walk.at = "asking"
    /\ walk' = [walk EXCEPT !.at = "counted", !.total = Cardinality(Items(walk.list, table))]
    /\ UNCHANGED <<table, before>>

\* The page; its length tells the client whether there may be more.
ReadPage ==
    /\ walk.at = "counted"
    /\ \E place \in Orders(walk.list, table) :
         LET page == Page(place, walk.offset)
         IN walk' = [walk EXCEPT !.at = IF Cardinality(page) < PageLimit THEN "done" ELSE "asking",
                                 !.offset = @ + PageLimit,
                                 !.got = @ + Cardinality(page), !.seen = @ \cup page]
    /\ UNCHANGED <<table, before>>

PagesNext ==
    \/ \E row \in Rows : Store(row)
    \/ \E list \in Lists : BeginWalk(list)
    \/ CountItems \/ ReadPage
PagesSpec == PagesInit /\ [][PagesNext]_pagesVars

-----------------------------------------------------------------------------
(* Properties.                                                                *)

\* A session that is reported again while the client reads moves to the front.
Unmoved(x) == walk.list = "sessions" => Visible(table, x) = Visible(before, x)

\* No row that is not its own has an item's timestamp.
Alone(list, R, x) ==
    LET others == IF list = "sessions" THEN UNION {Visible(R, sid) : sid \in Visits \ {x}}
                                       ELSE Items(list, R) \ {x}
    IN \A r \in others : r.ts # StampOf(list, R, x)

\* Whatever is written meanwhile, at whatever time it claims to have happened:
\* what was listed when the client began, has not moved since and shares its
\* timestamp with nothing is in a page it got, or still behind them; and when it
\* stops, nothing is behind.
NoneSkipped ==
    \A x \in Items(walk.list, before) :
        /\ x \in Items(walk.list, table)
        /\ Unmoved(x) /\ Alone(walk.list, table, x) =>
              \/ x \in walk.seen
              \/ walk.at # "done" /\ Rank(walk.list, table, x) >= walk.offset

\* If nothing is written meanwhile the client gets as many items in all as the
\* total said, among them each that shares its timestamp with nothing; if that is
\* true of all, it gets each of them once.
EachOnce ==
    LET items == Items(walk.list, table)
        alone == {x \in items : Alone(walk.list, table, x)}
    IN table = before /\ walk.at = "done" =>
          /\ walk.got = walk.total /\ walk.total = Cardinality(items)
          /\ alone \subseteq walk.seen
          /\ alone = items => walk.seen = items /\ walk.got = Cardinality(walk.seen)
=============================================================================
