------------------------------ MODULE Pagination ------------------------------
(***************************************************************************)
(* Walks over the pages of a list while it changes, over src/src/pagination/: *)
(*   cursor    AITriggersService.findAllCursor                              *)
(*   offset    AITriggersService and AuditLogService.findAll, page numbers; *)
(*             getManyAndCount asks for the rows and then for their number  *)
(*   history   EmergencyUnstakeService.getEmergencyHistory, page numbers,   *)
(*             asks for the number first                                    *)
(*   memory    SubscriptionService.listSubscriptions, page numbers, over a  *)
(*             Map, without an await                                        *)
(* The table holds the rows that the filter of the walk selects; a row has  *)
(* an id, which counts up, and the value of the column sorted by, a column  *)
(* of the entity (the default createdAt is none of AITrigger).  A query is  *)
(* one step.                                                                *)
(*                                                                          *)
(* A client starts at the first page and follows nextCursor, or counts pages,*)
(* until hasNext is false.                                                  *)
(***************************************************************************)
EXTENDS Integers, FiniteSetsExt, SequencesExt

CONSTANTS
  MaxRows,   \* bound on rows that are ever inserted
  Keys,      \* values of the column sorted by
  Limits     \* page sizes

ASSUME PaginationAssumption ==
  MaxRows \in Nat /\ Keys \subseteq Int /\ Limits \subseteq Nat \ {0}

VARIABLES
  table,      \* the column sorted by, of every row
  lastId,     \* the sequence of the ids
  walk,       \* the walk in progress
  returned,   \* history: how often the walk returned each row
  settled,    \* history: rows that are as they were when the walk started
  grown,      \* history: since then rows were inserted
  moved       \* history: since then rows were updated or removed

pagesVars == <<table, lastId, walk, returned, settled, grown, moved>>

Ids == 1..MaxRows
Orders == {"ASC", "DESC"}
NoCursor == [sortValue |-> 0, id |-> 0]
NoWalk == [pc |-> "idle"]
\* ties: history, the value that the first page by cursor ended with
Modes == {"cursor", "offset", "history", "memory"}
Cursors == [sortValue: Keys, id: Ids] \union {NoCursor}
Walks ==
  [pc: {"cursor", "page", "count", "done"}, mode: Modes, order: Orders, limit: Limits,
   cursor: Cursors, page: Nat, total: 0..MaxRows,
   ties: SUBSET Keys]

PagesInit ==
  /\ table = <<>>
  /\ lastId = 0
  /\ walk = NoWalk
  /\ returned = [i \in Ids |-> 0]
  /\ settled = {}
  /\ grown = FALSE
  /\ moved = FALSE

Rows == DOMAIN table

-----------------------------------------------------------------------------
(* The writers *)

\* createTrigger saves, then calls the target of the trigger, which changes
\* nothing here.
CreateTrigger(key) ==
  /\ lastId < MaxRows
  /\ lastId' = lastId + 1
  /\ table' = [i \in Rows \union {lastId'} |-> IF i = lastId' THEN key ELSE table[i]]
  /\ grown' = TRUE
  /\ UNCHANGED <<walk, returned, settled, moved>>

UpdateTrigger(i, key) ==
  /\ i \in Rows /\ table[i] # key
  /\ table' = [table EXCEPT ![i] = key]
  /\ settled' = settled \ {i}
  /\ moved' = TRUE
  /\ UNCHANGED <<lastId, walk, returned, grown>>

RemoveTrigger(i) ==
  /\ i \in Rows
  /\ table' = [k \in Rows \ {i} |-> table[k]]
  /\ settled' = settled \ {i}
  /\ moved' = TRUE
  /\ UNCHANGED <<lastId, walk, returned, grown>>

-----------------------------------------------------------------------------
(* Pages *)

Before(order, x, y) == IF order = "ASC" THEN x < y ELSE x > y

\* The answers that the database may give to ORDER BY the column alone: rows
\* with the same value come in any order.
Sorted(order) ==
  {s \in [1..Cardinality(Rows) -> Rows] :
     \A i, j \in DOMAIN s : i < j => s[i] # s[j] /\ ~Before(order, table[s[j]], table[s[i]])}

\* i comes before j by the column, and by the id where the column is the same.
Ahead(order, ids, i, j) ==
  Before(order, table[i], table[j]) \/ (table[i] = table[j] /\ Before(ids, i, j))

\* The one sequence of the rows, in a set
SortedFully(rows, order, ids) ==
  {s \in [1..Cardinality(rows) -> rows] :
     \A i, j \in DOMAIN s : i < j => Ahead(order, ids, s[i], s[j])}

\* ORDER BY the column and the id
SortedById(order, rows) == SortedFully(rows, order, order)

\* LIMIT n after OFFSET k
Slice(s, k, n) == SubSeq(s, k + 1, Min({k + n, Len(s)}))

Returns(rows) == returned' = [i \in Ids |-> returned[i] + IF i \in Range(rows) THEN 1 ELSE 0]

\* What an answer of up to limit + 1 rows makes of the walk: createCursorFromItem
\* of the last row that is returned, if there are more.
Followed(w, rows) ==
  LET page == Slice(rows, 0, w.limit) IN
  IF Len(rows) > w.limit
    THEN [w EXCEPT !.pc = "cursor", !.cursor = [sortValue |-> table[Last(page)], id |-> Last(page)]]
    ELSE [w EXCEPT !.pc = "done"]

Start(mode, order, limit) ==
  [pc |-> CASE mode = "cursor" -> "cursor" [] mode = "history" -> "count" [] OTHER -> "page",
   mode |-> mode, order |-> order, limit |-> limit, cursor |-> NoCursor, page |-> 1,
   total |-> 0, ties |-> {}]

Begin(mode, order, limit) ==
  /\ walk.pc \in {"idle", "done"}
  /\ walk' = Start(mode, order, limit)
  /\ returned' = [i \in Ids |-> 0]
  /\ settled' = Rows
  /\ grown' = FALSE /\ moved' = FALSE
  /\ UNCHANGED <<table, lastId>>

\* findAllCursor without a cursor: the id does not take part in the order.
FirstPage ==
  /\ walk.pc = "cursor" /\ walk.cursor = NoCursor
  /\ \E s \in Sorted(walk.order) :
       LET rows == Slice(s, 0, walk.limit + 1)
           w == Followed(walk, rows)
       IN /\ walk' = [w EXCEPT !.ties = IF w.pc = "done" THEN {} ELSE {w.cursor.sortValue}]
          /\ Returns(Slice(rows, 0, walk.limit))
  /\ UNCHANGED <<table, lastId, settled, grown, moved>>

\* Defect: rows with the value of the cursor are not asked for.
BeyondValueOnly(w) == {i \in Rows : Before(w.order, w.cursor.sortValue, table[i])}

\* The condition of applyCursorPagination
Beyond(w) ==
  {i \in Rows :
     \/ Before(w.order, w.cursor.sortValue, table[i])
     \/ table[i] = w.cursor.sortValue /\ Before(w.order, w.cursor.id, i)}

\* findAllCursor with a cursor
NextPage ==
  /\ walk.pc = "cursor" /\ walk.cursor # NoCursor
  /\ \E s \in SortedById(walk.order, Beyond(walk)) :
       LET rows == Slice(s, 0, walk.limit + 1)
       IN /\ walk' = Followed(walk, rows)
          /\ Returns(Slice(rows, 0, walk.limit))
  /\ UNCHANGED <<table, lastId, settled, grown, moved>>

Skip(page, limit) == (page - 1) * limit

\* Defect: a last page that is not full is not counted.
TotalPagesFull(total, limit) == total \div limit

TotalPages(total, limit) == (total + limit - 1) \div limit

\* The client goes on while buildPaginationMeta says hasNext.
Turned(w, total, pc) ==
  IF w.page < TotalPages(total, w.limit) THEN [w EXCEPT !.pc = pc, !.page = @ + 1]
                                         ELSE [w EXCEPT !.pc = "done"]

\* getManyAndCount: the rows
OffsetPage ==
  /\ walk.pc = "page" /\ walk.mode = "offset"
  /\ \E s \in Sorted(walk.order) :
       Returns(Slice(s, Skip(walk.page, walk.limit), walk.limit))
  /\ walk' = [walk EXCEPT !.pc = "count"]
  /\ UNCHANGED <<table, lastId, settled, grown, moved>>

\* getManyAndCount: the total
OffsetCount ==
  /\ walk.pc = "count" /\ walk.mode = "offset"
  /\ walk' = Turned(walk, Cardinality(Rows), "page")
  /\ UNCHANGED <<table, lastId, returned, settled, grown, moved>>

\* getEmergencyHistory: getCount
HistoryCount ==
  /\ walk.pc = "count" /\ walk.mode = "history"
  /\ walk' = [walk EXCEPT !.pc = "page", !.total = Cardinality(Rows)]
  /\ UNCHANGED <<table, lastId, returned, settled, grown, moved>>

\* getEmergencyHistory: getMany
HistoryPage ==
  /\ walk.pc = "page" /\ walk.mode = "history"
  /\ \E s \in Sorted(walk.order) :
       Returns(Slice(s, Skip(walk.page, walk.limit), walk.limit))
  /\ walk' = Turned(walk, walk.total, "count")
  /\ UNCHANGED <<table, lastId, settled, grown, moved>>

\* Array.sort is stable: in either order, rows with the same value stay as they
\* were inserted.
Listed(order) == SortedFully(Rows, order, "ASC")

\* listSubscriptions
MemoryPage ==
  /\ walk.pc = "page" /\ walk.mode = "memory"
  /\ \E s \in Listed(walk.order) :
       Returns(Slice(s, Skip(walk.page, walk.limit), walk.limit))
  /\ walk' = Turned(walk, Cardinality(Rows), "page")
  /\ UNCHANGED <<table, lastId, settled, grown, moved>>

PagesNext ==
  \/ \E key \in Keys : CreateTrigger(key)
  \/ \E i \in Ids : RemoveTrigger(i)
  \/ \E i \in Ids, key \in Keys : UpdateTrigger(i, key)
  \/ \E mode \in Modes, order \in Orders, limit \in Limits : Begin(mode, order, limit)
  \/ FirstPage
  \/ NextPage
  \/ OffsetPage
  \/ OffsetCount
  \/ HistoryCount
  \/ HistoryPage
  \/ MemoryPage

PagesSpec == PagesInit /\ [][PagesNext]_pagesVars

-----------------------------------------------------------------------------
(* Properties *)

PagesTypeOK ==
  /\ DOMAIN table \subseteq 1..lastId /\ table \in [Rows -> Keys]
  /\ lastId \in 0..MaxRows
  /\ walk = NoWalk \/ walk \in Walks
  /\ returned \in [Ids -> Nat]
  /\ settled \subseteq Rows /\ grown \in BOOLEAN /\ moved \in BOOLEAN

\* Rows are told apart by the column sorted by.
ToldApart == \A i, j \in Rows : table[i] = table[j] => i = j

\* A walk by cursors returns every row that stayed as it was exactly once,
\* whatever was inserted, changed and removed around it, unless the row has the
\* value that the first page ended with, which is sorted by that value alone.
CursorWalkComplete ==
  walk.pc = "done" /\ walk.mode = "cursor" =>
    \A i \in settled : table[i] \notin walk.ties => returned[i] = 1

\* A walk by page numbers returns every row that was there from the beginning if
\* no row was updated or removed meanwhile (the audit log is only inserted into),
\* and exactly once if none was inserted either, as long as the column tells the
\* rows apart, which a list in memory does not need.  With the number asked for
\* before the rows, a row inserted in between may push another off the last page.
OffsetWalkComplete ==
  walk.pc = "done" /\ walk.mode # "cursor" /\ ~moved /\ (ToldApart \/ walk.mode = "memory") =>
    \A i \in settled :
      /\ returned[i] >= 1 \/ (walk.mode = "history" /\ grown)
      /\ returned[i] = 1 \/ grown

\* Whichever way a client walks through a list, and whatever requests write to it
\* meanwhile, it sees the rows that nothing was done to (paginate, findAll).
WalksComplete == PagesTypeOK /\ CursorWalkComplete /\ OffsetWalkComplete
=============================================================================
