----------------------------- MODULE ResultPages -----------------------------
(* The pages of one stored result (get_query_results, paginate_dataframe).  A  *)
(* client asks for pages in any order; each request reads the stored table and *)
(* sorts it anew.  The table may expire between two requests.                  *)
EXTENDS Integers, Sequences, FiniteSets

CONSTANTS
    StoredTables,       \* sequences of [id, key], key being the sort column
    PageSizes,
    MaxPage             \* bound: the last page asked for

\* A row is known by its id.
ASSUME PagesAssumption ==
    /\ StoredTables \subseteq Seq([id : Int, key : Int])
    /\ \A table \in StoredTables : \A i, j \in DOMAIN table :
            i # j => table[i].id # table[j].id
    /\ PageSizes \subseteq Nat /\ MaxPage \in Nat

VARIABLES
    stored,             \* the table in Redis
    expired,
    size, sorted,       \* page_size, and whether a sort_column is given
    pages               \* the answer to each page asked for: [rows, total_pages]

pageVars == <<stored, expired, size, sorted, pages>>

PagesInit ==
    /\ stored \in StoredTables
    /\ expired = FALSE
    /\ size \in PageSizes
    /\ sorted \in BOOLEAN
    /\ pages = [p \in {} |-> <<>>]

\* The orders that apply_sort may give the table: equal keys in any order.
Orders ==
    LET places == DOMAIN stored
    IN  IF ~sorted THEN {stored}
        ELSE {[i \in places |-> stored[p[i]]] : p \in
                {p \in [places -> places] :
                    /\ \A i, j \in places : i # j => p[i] # p[j]
                    /\ \A i, j \in places : i < j => stored[p[i]].key <= stored[p[j]].key}}

\* A plausible error: pages are counted from zero.
OffsetFromZero(page) == page * size

Offset(page) == (page - 1) * size

\* df.slice: a negative offset counts from the end.
Slice(rows, offset, length) ==
    LET first == IF offset >= 0 THEN offset
                 ELSE IF offset + Len(rows) >= 0 THEN offset + Len(rows) ELSE 0
        last  == IF first + length > Len(rows) THEN Len(rows) ELSE first + length
    IN  SubSeq(rows, first + 1, last)

NotFound == [rows |-> <<>>, total_pages |-> 0]

\* The division by a page_size of 0 raised.
Error500 == [rows |-> <<>>, total_pages |-> -1]

Answers(page) ==
    IF expired THEN {NotFound}
    ELSE IF size = 0 THEN {Error500}
    ELSE {[rows |-> Slice(order, Offset(page), size),
           total_pages |-> (Len(stored) + size - 1) \div size] : order \in Orders}

\* page is not validated: 0 is taken, too.
GetPage(page) ==
    /\ page \notin DOMAIN pages
    /\ \E a \in Answers(page) :
            pages' = [p \in DOMAIN pages \cup {page} |-> IF p = page THEN a ELSE pages[p]]
    /\ UNCHANGED <<stored, expired, size, sorted>>

Expire ==
    /\ ~expired
    /\ expired' = TRUE
    /\ UNCHANGED <<stored, size, sorted, pages>>

PagesNext == Expire \/ \E page \in 0..MaxPage : GetPage(page)

PagesSpec == PagesInit /\ [][PagesNext]_pageVars

-----------------------------------------------------------------------------
Ids(rows) == {rows[i].id : i \in DOMAIN rows}

Ties == sorted /\ \E i, j \in DOMAIN stored : i # j /\ stored[i].key = stored[j].key

\* Whoever asks for as many pages as an answer promises gets every row once,
\* unless the table expired meanwhile, or rows with equal keys changed places
\* from one sort to the next; the pages behind the last are empty, while page 0
\* shows the last rows again, and a page_size of 0 fails.
PagesPartition ==
    ~expired /\ pages # [p \in {} |-> <<>>] =>
        LET promised == pages[CHOOSE p \in DOMAIN pages : TRUE].total_pages
            Shown(p) == Ids(pages[p].rows)
        IN  IF size = 0 THEN promised = -1
            ELSE /\ \A p \in DOMAIN pages : p > promised => pages[p].rows = <<>>
                 /\ {0, promised} \subseteq DOMAIN pages /\ ~Ties =>
                        Shown(promised) \subseteq Shown(0)
                 /\ 1..promised \subseteq DOMAIN pages /\ ~Ties =>
                        /\ UNION {Shown(p) : p \in 1..promised} = Ids(stored)
                        /\ \A p, q \in 1..promised : p # q => Shown(p) \cap Shown(q) = {}
=============================================================================
