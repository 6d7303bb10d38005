------------------------------ MODULE McpPages ------------------------------
(***************************************************************************)
(* What an agent reads page by page through the MCP server: the list of    *)
(* the reference documents, the edges of a node, the text of a document.   *)
(* Every page is one call; other agents write, link and delete between     *)
(* them.  A result is cut to the output budget, so a page may hold fewer   *)
(* rows or less text than was asked for and the next one resumes after it. *)
(*                                                                         *)
(* Keys are numbers in the order of doc_key; an edge's number is its place *)
(* in the order of (created_at, id), so one written later may fall before  *)
(* another of the same millisecond.  How much of a page the budget keeps   *)
(* is a choice: never less than one row.                                   *)
(***************************************************************************)
EXTENDS Integers, Sequences, FiniteSets, FiniteSetsExt, SequencesExt

CONSTANTS
  Keys,          \* a set of positive numbers
  WideKeys,      \* those whose cursor is longer than the decoder takes
  EdgeNumbers,   \* a set of positive numbers
  Limits,        \* the limits agents pass
  Texts,         \* bodies of the document that is read; "[" "]" make a marker
  PageSizes,     \* the max_chars agents pass
  Ended,
  MaxChanges     \* bound: writes by other agents

ASSUME PageBounds ==
  /\ Keys \subseteq Nat \ {0} /\ EdgeNumbers \subseteq Nat \ {0}
  /\ IsFiniteSet(Keys) /\ IsFiniteSet(EdgeNumbers)
  /\ \A t \in Texts : t \in Seq({t[i] : i \in DOMAIN t})
  /\ Limits \subseteq Nat \ {0} /\ PageSizes \subseteq Nat \ {0}
  /\ MaxChanges \in Nat
  /\ Ended \notin Nat /\ Ended \notin {"docs", "edges", "text"}

VARIABLES
  docs,     \* keys of the documents there are
  edges,    \* number -> "out", "in" or "loop" at the node walked: its edges
  body,     \* the text of the document being read
  writesMade,
  kind,     \* what is being read: "docs", "edges", "text"; Ended before
  cursor,   \* where the next page starts; Ended at the end
  listed,   \* the rows, or the text, received so far
  stayed,   \* history: what has been there since the first page
  stopped   \* the server has refused the cursor it gave out

pageVars == <<docs, edges, body, writesMade, kind, cursor, listed, stayed, stopped>>

PagesInit ==
  /\ docs \in SUBSET Keys
  /\ edges \in UNION {[S -> {"out", "in", "loop"}] : S \in SUBSET EdgeNumbers}
  /\ body \in Texts
  /\ writesMade = 0
  /\ kind = Ended /\ cursor = 0 /\ listed = <<>> /\ stayed = {} /\ stopped = FALSE

\* The first page may come at any moment.
StartWalk(k) ==
  /\ kind = Ended
  /\ kind' = k
  /\ stayed' = CASE k = "docs" -> docs [] k = "edges" -> DOMAIN edges [] k = "text" -> {"body"}
  /\ UNCHANGED <<docs, edges, body, writesMade, cursor, listed, stopped>>

-----------------------------------------------------------------------------
(* Other agents.                                                            *)
Change == writesMade < MaxChanges /\ writesMade' = writesMade + 1 /\ UNCHANGED <<kind, cursor, listed, stopped>>

SetReference(k) ==
  /\ Change
  /\ docs' = docs \union {k}
  /\ UNCHANGED <<edges, body, stayed>>
DeleteReference(k) ==
  /\ Change /\ k \in docs
  /\ docs' = docs \ {k}
  /\ stayed' = IF kind = "docs" THEN stayed \ {k} ELSE stayed
  /\ UNCHANGED <<edges, body>>
AddEdge(e, dir) ==
  /\ Change /\ e \notin DOMAIN edges
  /\ edges' = [x \in DOMAIN edges \union {e} |-> IF x = e THEN dir ELSE edges[x]]
  /\ UNCHANGED <<docs, body, stayed>>
RemoveEdge(e) ==
  /\ Change /\ e \in DOMAIN edges
  /\ edges' = [x \in DOMAIN edges \ {e} |-> edges[x]]
  /\ stayed' = IF kind = "edges" THEN stayed \ {e} ELSE stayed
  /\ UNCHANGED <<docs, body>>
RewriteBody(t) ==
  /\ Change /\ t # body
  /\ body' = t
  /\ stayed' = IF kind = "text" THEN {} ELSE stayed
  /\ UNCHANGED <<docs, edges>>

-----------------------------------------------------------------------------
(* Rows, as pairs that begin with their number.                             *)
InOrder(R) ==
  CHOOSE s \in [1..Cardinality(R) -> R] :
    IsInjective(s) /\ \A i, j \in DOMAIN s : i < j => s[i][1] <= s[j][1]

\* list_references: keys past the cursor.
DocRows == {<<k, "key">> : k \in {d \in docs : d > cursor}}

\* neighbors: the branch out of the node and the branch into it, a loop
\* being listed with the first.
LoopTwice == TRUE
LoopOnce == FALSE
OutRows == {<<e, "out">> : e \in {x \in DOMAIN edges : edges[x] \in {"out", "loop"}}}
InRows == {<<e, "in">> : e \in {x \in DOMAIN edges : edges[x] = "in" \/ (edges[x] = "loop" /\ LoopOnce)}}
EdgeRows == {r \in OutRows \union InRows : r[1] > cursor}

WalkRows == InOrder(IF kind = "docs" THEN DocRows ELSE EdgeRows)
FirstRows(limit) == SubSeq(WalkRows, 1, Min({limit, Len(WalkRows)}))

\* shape_hits: what fits, and the top row always.
Budgeted(page) == IF page = <<>> THEN {0} ELSE 1..Len(page)

\* The cursor: after the page, or after the last row the agent received.
AfterWholePage(page, kept, more) == IF more THEN Last(page)[1] ELSE Ended
AfterPage(page, kept, more) ==
  IF kept < Len(page) THEN page[kept][1] ELSE AfterWholePage(page, kept, more)

ListPage(limit) ==
  /\ kind \in {"docs", "edges"} /\ cursor # Ended /\ ~stopped
  /\ ~(kind = "docs" /\ cursor \in WideKeys)
  /\ LET page == FirstRows(limit)
     IN \E kept \in Budgeted(page) :
          /\ listed' = listed \o SubSeq(page, 1, kept)
          /\ cursor' = AfterPage(page, kept, Len(WalkRows) > limit)
  /\ UNCHANGED <<docs, edges, body, writesMade, kind, stayed, stopped>>

\* _decode_ref_cursor takes 4096 characters; the base64 of a key of 1024
\* characters may be longer.
RefuseCursor ==
  /\ kind = "docs" /\ cursor \in WideKeys /\ ~stopped
  /\ stopped' = TRUE
  /\ UNCHANGED <<docs, edges, body, writesMade, kind, cursor, listed, stayed>>

-----------------------------------------------------------------------------
(* Text.                                                                    *)
\* A marker becomes one symbol; a lone bracket stays.
IsMarkerAt(t, i) == i < Len(t) /\ t[i] = "[" /\ t[i + 1] = "]"
Shown(t) ==
  LET begin == {i \in DOMAIN t : ~(i > 1 /\ IsMarkerAt(t, i - 1))}
      parts == InOrder({<<i, IF IsMarkerAt(t, i) THEN "#" ELSE t[i]>> : i \in begin})
  IN [n \in DOMAIN parts |-> parts[n][2]]

PageText(t, off, size) == SubSeq(t, off + 1, Min({off + size, Len(t)}))
PageShown(t, off, size) == PageText(Shown(t), off, size)

\* The page is cut until the result fits; the cursor follows the cut.
ReadPage(size) ==
  /\ kind = "text" /\ cursor # Ended
  /\ \E fits \in 1..size :
       /\ listed' = listed \o PageShown(body, cursor, fits)
       /\ cursor' = IF cursor + fits < Len(Shown(body)) THEN cursor + fits ELSE Ended
  /\ UNCHANGED <<docs, edges, body, writesMade, kind, stayed, stopped>>

PagesNext ==
  \/ \E k \in {"docs", "edges", "text"} : StartWalk(k)
  \/ \E k \in Keys : SetReference(k) \/ DeleteReference(k)
  \/ \E e \in EdgeNumbers, dir \in {"out", "in", "loop"} : AddEdge(e, dir)
  \/ \E e \in EdgeNumbers : RemoveEdge(e)
  \/ \E t \in Texts : RewriteBody(t)
  \/ \E limit \in Limits : ListPage(limit)
  \/ RefuseCursor
  \/ \E size \in PageSizes : ReadPage(size)

PagesSpec == PagesInit /\ [][PagesNext]_pageVars

-----------------------------------------------------------------------------
Times(n) == Cardinality({i \in DOMAIN listed : listed[i][1] = n})

\* What stayed in place through a walk is listed exactly once by its end, and
\* nothing is ever listed twice; the pages of a document nobody rewrote are its
\* text, each character once, though a page is cut to fit and may end inside a
\* marker (memory_list_references, memory_neighbors, memory_get_reference).
ListedOnce ==
  /\ \A i \in DOMAIN listed : Times(listed[i][1]) = 1
  /\ cursor = Ended => \A n \in stayed : Times(n) = 1
WalksComplete ==
  /\ kind \in {"docs", "edges"} => ListedOnce
  /\ kind = "text" /\ cursor = Ended /\ stayed # {} => listed = Shown(body)

=============================================================================
