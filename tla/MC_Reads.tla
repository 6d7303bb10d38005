------------------------------- MODULE MC_Reads -------------------------------
(***************************************************************************)
(* Instances for TLC of what stands between an agent and the rows:         *)
(* RecallQuery (a search), SibylStore (two threads of a LangGraph agent),  *)
(* McpPages (a walk through pages), StorageConnections and McpClient.      *)
(* Each has its own state, so a behaviour is about one of them, chosen at  *)
(* its start, while the others rest.                                       *)
(***************************************************************************)
EXTENDS RecallQuery, SibylStore, McpPages, StorageConnections, McpClient

VARIABLE part

-----------------------------------------------------------------------------
(* RecallQuery: two entities and a document of the searching tenant, an      *)
(* entity of another tenant, stores of up to two of them.                    *)
MCTiers == <<"entity", "reference">>
MCSlots == {<<"entity", "k1", "own">>, <<"entity", "k2", "own">>,
            <<"reference", "d", "own">>, <<"entity", "k1", "other">>}
MCBodies == {{"x", "y"}, {"z"}, {"x", "not", "draft"}}
MCNear == {<<t, t>> : t \in {"x", "y", "not"}} \union {<<"x", "z">>}
Number(s) == CASE s[3] = "other" -> 3 [] s[2] = "k2" -> 2 [] OTHER -> 1
Numbered(bodies) ==
  {[tier |-> s[1], key |-> s[2], tenant |-> s[3], body |-> bodies[s], rid |-> Number(s)] :
     s \in DOMAIN bodies}
MCStores == UNION {{Numbered(bodies) : bodies \in [slots -> MCBodies]} :
                     slots \in {S \in SUBSET MCSlots : Cardinality(S) <= 2}}
Query(type, tokens, exact, terminal, relaxed) ==
  [kind |-> type, tokens |-> tokens, exact |-> exact, partly |-> {"k1"},
   terminal |-> terminal, relaxed |-> relaxed]
Gated == Query("gated", <<"x", "y">>, {}, TRUE, <<>>)
MCQueries == {Gated,
              Query("gated", <<"not", "x">>, {"k2"}, FALSE, <<>>),
              Query("gated", <<>>, {"k1"}, FALSE, <<>>),
              Query("raw", <<"y", "x">>, {}, FALSE, <<{"x"}>>)}

(* SibylStore: batches of one or two operations, a pool of two rows, and     *)
(* other programs that also write a category no namespace can name.          *)
A == <<"a">>
B == <<"b">>
AB == <<"a", "b">>
MCRows == {[cat |-> <<"a", "b">>, key |-> "k", value |-> "red"],
           [cat |-> <<"a">>, key |-> "k", value |-> "blue"],
           [cat |-> <<"b", "">>, key |-> "k", value |-> "blue"]}
MCMatching == [q \in {"colour", "warm"} |-> IF q = "warm" THEN {"red"} ELSE {"red", "blue"}]
PutOf(ns, key, value) == [kind |-> "put", ns |-> ns, key |-> key, value |-> value]
GetOf(ns) == [kind |-> "get", ns |-> ns, key |-> "k"]
SearchOf(prefix, text, filter, off, lim) ==
  [kind |-> "search", prefix |-> prefix, query |-> text, filter |-> filter,
   off |-> off, lim |-> lim]
ListOf(conds, depth, off, lim) ==
  [kind |-> "list", conds |-> conds, depth |-> depth, off |-> off, lim |-> lim]

MCBatches ==
  {<<PutOf(<<A, B>>, "k", "blue"), GetOf(<<A, B>>)>>,
   <<PutOf(<<A>>, "k", Nothing), PutOf(<<AB>>, "k", "red")>>,
   <<PutOf(<<A>>, "k", Nothing), GetOf(<<>>)>>,
   <<PutOf(<<B>>, "k", "red"), PutOf(<<B>>, "bad", "red")>>,
   <<PutOf(<<AB>>, "k", "blue"), GetOf(<<A>>)>>,
   <<SearchOf(<<A>>, "colour", Nothing, 0, 1), SearchOf(<<>>, "colour", Nothing, 1, Nothing)>>,
   <<SearchOf(<<>>, Nothing, {"blue"}, 0, 5), SearchOf(<<<<"..">>>>, "warm", Nothing, 0, 1)>>,
   <<SearchOf(<<>>, "warm", {"red"}, 0, -1), GetOf(<<A>>)>>,
   <<ListOf({[type |-> "suffix", path |-> <<B>>]}, 1, 0, Nothing),
     ListOf({[type |-> "prefix", path |-> <<<<"*">>, B>>]}, 9, 0, 1)>>,
   <<ListOf({}, 1, 1, 1)>>}

(* McpPages: texts with a marker of two characters. *)
MCTexts == {<<"a", "[", "]", "b">>, <<"[", "[", "]">>, <<"a">>, <<>>}

-----------------------------------------------------------------------------
RecallRests == rows = {} /\ query = Gated
StoreRests == entities = {}
PagesRest == docs = {} /\ edges = <<>> /\ body = <<>>
\* A walk reads one of the three; the others start empty.
OneWalk ==
  \/ docs \in SUBSET Keys /\ edges = <<>> /\ body = <<>>
  \/ docs = {} /\ edges \in UNION {[S -> {"out", "in", "loop"}] : S \in SUBSET EdgeNumbers} /\ body = <<>>
  \/ docs = {} /\ edges = <<>> /\ body \in Texts
ClientRests == creds = Absent

PartInit ==
  /\ part \in {"recall", "store", "pages", "connections", "client"}
  /\ (part = "recall" \/ RecallRests) /\ RecallInit
  /\ (part = "store" \/ StoreRests) /\ StoreInit
  /\ IF part = "pages" THEN OneWalk ELSE PagesRest
  /\ PagesInit
  /\ (part = "client" \/ ClientRests) /\ McpInit
  /\ ConnInit

PartSpec ==
  /\ PartInit
  /\ [][UNCHANGED part
        /\ \/ part = "recall" /\ RecallNext /\ UNCHANGED <<lgVars, pageVars, connVars, mcpVars>>
           \/ part = "store" /\ StoreNext /\ UNCHANGED <<recallVars, pageVars, connVars, mcpVars>>
           \/ part = "pages" /\ PagesNext /\ UNCHANGED <<recallVars, lgVars, connVars, mcpVars>>
           \/ part = "connections" /\ ConnNext /\ UNCHANGED <<recallVars, lgVars, pageVars, mcpVars>>
           \/ part = "client" /\ McpNext /\ UNCHANGED <<recallVars, lgVars, pageVars, connVars>>
       ]_<<part, recallVars, lgVars, pageVars, connVars, mcpVars>>
=============================================================================
