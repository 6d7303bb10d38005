---------------------------- MODULE RecallQuery ----------------------------
(***************************************************************************)
(* One search over a memory database other clients write to: client.py's   *)
(* search() and search_entities(), multi_record_search() and the verdict   *)
(* that goes out with the hits.  No transaction spans a search: every      *)
(* SELECT sees the store as it is then.  Stage 1 keeps row numbers only,   *)
(* and bodies are read by number after the gates.                          *)
(*                                                                         *)
(* A row is its tier, key, tenant, number and the set of words its text    *)
(* holds; a query is the words it asks for.  Ranks, snippets, titles and   *)
(* edge summaries are left out: where only ranking decides, any choice is  *)
(* allowed.                                                                *)
(***************************************************************************)
EXTENDS Integers, Sequences, FiniteSets, FiniteSetsExt

CONSTANTS
  Tiers,          \* the searched tiers, in the order the code reads them
  Slots,          \* bound: the <<tier, key, tenant>> the instance may hold
  Own,            \* the tenant that searches
  Bodies,         \* the word sets rows may hold
  Stores,         \* the stores a search may start on
  Queries,        \* [kind, tokens, exact, partly, terminal, relaxed]
  Near,           \* <<token, word>>: the shadow finds word for token
  Plain,          \* tokens the ending rule leaves alone
  FunctionWords, Negations,
  Prep, Final,    \* the words of the prep gate's two lexicons
  Depth, Limit,   \* recall depth of a token, length of a page
  Steep,          \* e of the idf formula, scaled down to small stores
  MaxEdits        \* bound: writes of other clients during the search

ASSUME RecallBounds ==
  /\ {Depth, Limit, Steep} \subseteq Nat \ {0} /\ MaxEdits \in Nat
  /\ Negations \subseteq FunctionWords

\* UNIQUE (tenant_id, ..., name) and the row number of a table keep rows apart.
RowsApart(R) ==
  \A r, o \in R : r.tier = o.tier /\ (r.rid = o.rid \/ <<r.key, r.tenant>> = <<o.key, o.tenant>>)
                 => r = o

ASSUME TablesAndQueries ==
  /\ Tiers # <<>> /\ Tiers \in Seq({Tiers[i] : i \in DOMAIN Tiers})
  /\ \A i, j \in DOMAIN Tiers : Tiers[i] = Tiers[j] => i = j
  /\ IsFiniteSet(Slots)
  /\ \A s \in Slots : s = <<s[1], s[2], s[3]>> /\ \E i \in DOMAIN Tiers : s[1] = Tiers[i]
  /\ \A R \in Stores :
       /\ IsFiniteSet(R) /\ RowsApart(R)
       /\ \A r \in R : r.rid \in Nat \ {0} /\ <<r.tier, r.key, r.tenant>> \in Slots
  /\ \A q \in Queries :
       /\ q.kind \in {"gated", "raw"}
       /\ q.tokens \in Seq({q.tokens[i] : i \in DOMAIN q.tokens})
       /\ q.relaxed \in Seq({q.relaxed[i] : i \in DOMAIN q.relaxed})

VARIABLES
  rows, edits,
  query, pc,
  turn,         \* which token, or which variant of a raw query, is being read
  at,           \* which tier is read next
  named,        \* stage 0: the entities the query names
  corpus,       \* the rows counted before stage 1
  head, full,   \* the token's rows so far, and the tiers whose limit bound
  df, cand, preps,
  page, verdict,
  seen, steady, absent, wasEmpty, shrunk  \* the store during the search

searchVars == <<query, turn, at, named, corpus, head, full, df, cand, preps, page, verdict>>
history == <<seen, steady, absent, wasEmpty, shrunk>>
recallVars == <<rows, edits, pc, searchVars, history>>

RangeOf(s) == {s[i] : i \in DOMAIN s}
Asked == RangeOf(query.tokens)
MineIn(R) == {r \in R : r.tenant = Own}
Mine == MineIn(rows)
InTier(i) == {r \in Mine : r.tier = Tiers[i]}
Version(r) == [tier |-> r.tier, key |-> r.key, body |-> r.body]
Ident(h) == <<h.tier, h.key>>
Least(a, b) == IF a < b THEN a ELSE b
\* ORDER BY rank LIMIT n: some n of them, or all when there are fewer.
Top(n, S) == kSubset(Least(n, Cardinality(S)), S)

\* normalize_py / the folded trigrams: what the shadow takes for the token.
Close(t, r) == \E w \in r.body : <<t, w>> \in Near
PurePrep(body) == Prep \in body /\ Final \notin body
Unsupported(R) == {t \in Asked : \A r \in R : t \notin r.body /\ ~Close(t, r)}

RecallInit ==
  /\ rows \in Stores /\ edits = 0
  /\ query \in Queries
  /\ pc = IF query.kind = "raw" THEN "strict" ELSE "exact"
  /\ turn = 1 /\ at = 1
  /\ named = {} /\ corpus = 0
  /\ head = {} /\ full = {}
  /\ df = [t \in Asked |-> 0] /\ cand = {} /\ preps = {}
  /\ page = {} /\ verdict = "NO_MATCH"
  /\ seen = {Version(r) : r \in Mine} /\ steady = seen
  /\ absent = Unsupported(Mine)
  /\ wasEmpty = (Mine = {}) /\ shrunk = FALSE

-----------------------------------------------------------------------------
(* Other clients.  entities, state_documents and reference_documents have  *)
(* no INTEGER PRIMARY KEY: SQLite numbers a new row one past the largest.   *)
Remember(R) ==
  /\ edits' = edits + 1
  /\ seen' = seen \union {Version(r) : r \in MineIn(R)}
  /\ steady' = steady \intersect {Version(r) : r \in MineIn(R)}
  /\ absent' = absent \union Unsupported(MineIn(R))
  /\ wasEmpty' = (wasEmpty \/ MineIn(R) = {})
  /\ UNCHANGED <<pc, searchVars>>

Held(slot) == {r \in rows : <<r.tier, r.key, r.tenant>> = slot}
NextNumber(tier) == 1 + Max({0} \union {r.rid : r \in {x \in rows : x.tier = tier}})

SetRow(slot, body) ==
  LET rid == IF Held(slot) = {} THEN NextNumber(slot[1])
             ELSE (CHOOSE r \in Held(slot) : TRUE).rid
      new == [tier |-> slot[1], key |-> slot[2], tenant |-> slot[3],
              rid |-> rid, body |-> body]
  IN /\ edits < MaxEdits /\ pc # "done"
     /\ rows' = (rows \ Held(slot)) \union {new}
     /\ shrunk' = (shrunk \/ Held(slot) # {})
     /\ Remember(rows')

DeleteRow(slot) ==
  /\ edits < MaxEdits /\ pc # "done"
  /\ Held(slot) # {}
  /\ rows' = rows \ Held(slot)
  /\ shrunk' = TRUE
  /\ Remember(rows')

-----------------------------------------------------------------------------
(* The steps every SELECT over the tiers has in common.                     *)
Still == UNCHANGED <<rows, edits, history, query>>
LastTier == at = Len(Tiers)
NextTier(after) ==
  /\ at' = IF LastTier THEN 1 ELSE at + 1
  /\ pc' = IF LastTier THEN after ELSE pc

\* _load_rows: the rows of these numbers, of this tenant.
Loaded(h) == {r \in Mine : r.tier = h.tier /\ r.rid = h.rid}
\* _hydrate_hits: shadow rows have their body; of the others, those whose
\* number still loads.
ReadByNumber(h) == {[tier |-> h.tier, key |-> h.key, body |-> r.body] : r \in Loaded(h)}
Hydrate(hits) ==
  UNION {IF h.rid = 0 THEN {[tier |-> h.tier, key |-> h.key, body |-> h.body]}
         ELSE ReadByNumber(h) : h \in hits}

\* A hit of stage 1: rid 0 marks a row of the shadow, which brings its body.
ByNumber(r) == [tier |-> r.tier, key |-> r.key, rid |-> r.rid, body |-> {}]
ByShadow(r) == [tier |-> r.tier, key |-> r.key, rid |-> 0, body |-> r.body]

-----------------------------------------------------------------------------
(* Stage 0: the entities the query names, and the corpus count.             *)
NameRow(r, match) == [tier |-> r.tier, key |-> r.key, rid |-> r.rid, match |-> match]

ExactNames ==
  /\ pc = "exact" /\ pc' = "partial"
  /\ named' = {NameRow(r, "name") : r \in {x \in Mine : x.tier = "entity" /\ x.key \in query.exact}}
  /\ Still /\ UNCHANGED <<turn, at, corpus, head, full, df, cand, preps, page, verdict>>

PartialNames ==
  /\ pc = "partial"
  /\ pc' = IF query.tokens = <<>> THEN "stage0" ELSE "count"
  /\ named' = named \union
       {NameRow(r, "name_partial") :
          r \in {x \in Mine : /\ x.tier = "entity" /\ x.key \in query.partly
                              /\ \A n \in named : n.rid # x.rid}}
  /\ Still /\ UNCHANGED <<turn, at, corpus, head, full, df, cand, preps, page, verdict>>

CountCorpus ==
  /\ pc = "count"
  /\ corpus' = corpus + Cardinality(InTier(at))
  /\ NextTier("recall")
  /\ Still /\ UNCHANGED <<turn, named, head, full, df, cand, preps, page, verdict>>

-----------------------------------------------------------------------------
(* Stage 1, once per token: the rows of each tier, a COUNT of the tiers     *)
(* whose limit bound, then the shadow.                                      *)
Token == query.tokens[turn]

RecallTier ==
  /\ pc = "recall"
  /\ \E got \in Top(Depth, {r \in InTier(at) : Token \in r.body}) :
       /\ head' = head \union {ByNumber(r) : r \in got}
       /\ full' = IF Cardinality(got) >= Depth THEN full \union {at} ELSE full
       /\ df' = IF Cardinality(got) >= Depth THEN df
                ELSE [df EXCEPT ![Token] = @ + Cardinality(got)]
  /\ NextTier("tally")
  /\ Still /\ UNCHANGED <<turn, named, corpus, cand, preps, page, verdict>>

CountTier ==
  /\ pc = "tally" /\ full # {}
  /\ LET i == Min(full) IN
       /\ df' = [df EXCEPT ![Token] = @ + Cardinality({r \in InTier(i) : Token \in r.body})]
       /\ full' = full \ {i}
  /\ Still /\ UNCHANGED <<pc, turn, at, named, corpus, head, cand, preps, page, verdict>>

\* _append_shadow under the decisive guard, or _shadow_fallback below an empty
\* head.  Whether the guard holds is the text's business: any answer.
ShadowRowsHeadOnly(room) ==
  IF head = {} \/ room <= 0 THEN {{}} ELSE {{}} \union Top(room, {r \in Mine : Close(Token, r)})
ShadowRows(room) ==
  LET fresh == {r \in Mine : Close(Token, r) /\ \A h \in head : Ident(h) # Ident(r)}
  IN IF head = {} THEN Top(Depth, fresh)
     ELSE IF Token \in Plain \/ room <= 0 THEN {{}}
     ELSE {{}} \union Top(room, fresh)

\* The candidates with this token's hits; the first hit seen of a row is kept.
GatherFirst(hits) ==
  cand \union {[hit |-> h, m |-> {Token}] :
                 h \in {x \in hits : \A c \in cand : Ident(c.hit) # Ident(x)}}
Gather(hits) ==
  LET known == {c \in cand : \E h \in hits : Ident(h) = Ident(c.hit)}
      fresh == {h \in hits : \A c \in cand : Ident(c.hit) # Ident(h)}
  IN (cand \ known) \union {[c EXCEPT !.m = @ \union {Token}] : c \in known}
                    \union {[hit |-> h, m |-> {Token}] : h \in fresh}

RecallShadow ==
  /\ pc = "tally" /\ full = {}
  /\ \E extra \in ShadowRows(Depth - Cardinality(head)) :
       LET n == df[Token] + Cardinality(extra)
           abstain == n = 0 /\ Token \notin FunctionWords
           after == IF n = 0 THEN cand
                    ELSE Gather(head \union {ByShadow(r) : r \in extra})
       IN /\ df' = [df EXCEPT ![Token] = n]
          /\ cand' = after
          /\ verdict' = IF abstain THEN "ABSTAINED_ON" ELSE verdict
          /\ IF abstain \/ turn = Len(query.tokens) THEN turn' = turn ELSE turn' = turn + 1
          /\ pc' = IF abstain THEN "stage0"
                   ELSE IF turn < Len(query.tokens) THEN "recall"
                   ELSE IF query.terminal /\ after # {} THEN "prep" ELSE "gates"
  /\ head' = {}
  /\ Still /\ UNCHANGED <<at, named, corpus, full, preps, page>>

\* The prep gate's text, one batch by number; a row that is gone reads "".
LoadPrep ==
  /\ pc = "prep" /\ pc' = "gates"
  /\ preps' = {c.hit : c \in {x \in cand : \E v \in Hydrate({x.hit}) : PurePrep(v.body)}}
  /\ Still /\ UNCHANGED <<turn, at, named, corpus, head, full, df, cand, page, verdict>>

-----------------------------------------------------------------------------
(* The gates.                                                               *)
Live == {t \in Asked : df[t] > 0}
Function == Live \intersect FunctionWords
Scored == IF Function # Live THEN Live \ Function ELSE Live
Dropped == Asked \ Scored
\* idf is clamped at zero: a token far more frequent than the corpus count
\* explains weighs nothing.
Heavy == {t \in Scored : df[t] + 1 < Steep * (corpus + 1)}
Whole(c) == Heavy # {} /\ Heavy \subseteq c.m
Partly(c) == ~Whole(c) /\ c.m \intersect Heavy # {}

\* Full coverage clears the floor and the anchor gate; part of it may.
\* Coverage sorts first, so full coverage comes first on the page.
Gates ==
  /\ pc = "gates"
  /\ LET open == {c \in cand : c.hit \notin preps}
         whole == {c \in open : Whole(c)}
     IN \/ /\ Live = {}
           /\ page' = {} /\ pc' = "stage0" /\ UNCHANGED verdict
        \/ /\ Live # {} /\ Dropped \intersect Negations # {}
           /\ page' = {} /\ verdict' = "NEGATION_ABSTAIN" /\ pc' = "stage0"
        \/ /\ Live # {} /\ Dropped \intersect Negations = {}
           /\ \E some \in SUBSET {c \in open : Partly(c)} :
                /\ page' \in IF Cardinality(whole) >= Limit
                             THEN {{c.hit : c \in S} : S \in Top(Limit, whole)}
                             ELSE {{c.hit : c \in whole \union S} :
                                     S \in Top(Limit - Cardinality(whole), some)}
                /\ verdict' = IF whole \union some = {} /\ cand # {} THEN "GATED" ELSE verdict
           /\ pc' = "hydrate"
  /\ Still /\ UNCHANGED <<turn, at, named, corpus, head, full, df, cand, preps>>

HydratePage ==
  /\ pc = "hydrate" /\ pc' = "stage0"
  /\ page' = Hydrate(page)
  /\ Still /\ UNCHANGED <<turn, at, named, corpus, head, full, df, cand, preps, verdict>>

\* _merge_stage0: the rows stage 0 named and the verdict lets through, read
\* by number, exact names before partial ones.
Usable == {n \in named : \/ verdict \notin {"ABSTAINED_ON", "NEGATION_ABSTAIN"}
                         \/ verdict = "NEGATION_ABSTAIN" /\ n.match = "name"}
Leads(match) == UNION {ReadByNumber(n) : n \in {x \in Usable : x.match = match}}

\* _finish: the named rows, then the text rows, cut to the page; stamp() gives
\* a page with rows the verdict OK.  An empty one is probed.
MergeNames ==
  LET exact == Leads("name")
      partly == {v \in Leads("name_partial") : \A e \in exact : Ident(e) # Ident(v)}
      text == {v \in page : \A n \in exact \union partly : Ident(n) # Ident(v)}
      room == Limit - Cardinality(exact)
  IN /\ pc = "stage0"
     /\ page' \in
          IF room <= 0 THEN Top(Limit, exact)
          ELSE IF room <= Cardinality(partly) THEN {exact \union P : P \in Top(room, partly)}
          ELSE {exact \union partly \union S : S \in Top(room - Cardinality(partly), text)}
     /\ verdict' = IF page' # {} THEN "OK" ELSE verdict
     /\ pc' = IF page' = {} /\ corpus = 0 THEN "probe" ELSE "done"
     /\ at' = 1
     /\ Still /\ UNCHANGED <<turn, named, corpus, head, full, df, cand, preps>>

\* store_is_empty: one COUNT per tier.
Probe ==
  /\ pc = "probe"
  /\ LET found == InTier(at) # {} IN
       /\ pc' = IF found \/ LastTier THEN "done" ELSE "probe"
       /\ at' = IF found \/ LastTier THEN at ELSE at + 1
       /\ verdict' = IF ~found /\ LastTier THEN "EMPTY_STORE" ELSE verdict
  /\ Still /\ UNCHANGED <<turn, named, corpus, head, full, df, cand, preps, page>>

-----------------------------------------------------------------------------
(* search(): the strict head, the relaxed variants below an empty one, the  *)
(* shadow behind whatever stands.                                           *)
Variants == <<Asked>> \o query.relaxed

StrictTier ==
  /\ pc = "strict"
  /\ \E got \in Top(Limit, {r \in InTier(at) : Variants[turn] \subseteq r.body}) :
       head' = head \union {Version(r) : r \in got}
  /\ IF ~LastTier THEN UNCHANGED <<pc, turn, page>> /\ at' = at + 1
     ELSE /\ at' = 1
          /\ page' \in Top(Limit, head')
          /\ IF head' = {} /\ turn < Len(Variants)
             THEN turn' = turn + 1 /\ pc' = pc
             ELSE turn' = turn /\ pc' = "append"
  /\ Still /\ UNCHANGED <<named, corpus, full, df, cand, preps, verdict>>

ShadowBehind ==
  LET close == {Version(r) : r \in {x \in Mine : \E t \in Asked : Close(t, x)}}
      fresh == {v \in close : \A h \in page : Ident(h) # Ident(v)}
      barred == page # {} /\ turn = 1 /\ Cardinality(Asked) = 1 /\ Asked \subseteq Plain
  IN IF barred THEN {{}}
     ELSE {S \in SUBSET fresh : Cardinality(page) + Cardinality(S) <= Limit}

AppendShadow ==
  /\ pc = "append"
  /\ \E extra \in ShadowBehind : page' = page \union extra
  /\ verdict' = IF page' # {} THEN "OK" ELSE verdict
  /\ pc' = IF page' = {} THEN "probe" ELSE "done"
  /\ head' = {}
  /\ Still /\ UNCHANGED <<turn, at, named, corpus, full, df, cand, preps>>

-----------------------------------------------------------------------------
SearchStep ==
  \/ ExactNames \/ PartialNames \/ CountCorpus
  \/ RecallTier \/ CountTier \/ RecallShadow \/ LoadPrep
  \/ Gates \/ HydratePage \/ MergeNames \/ Probe
  \/ StrictTier \/ AppendShadow

RecallNext ==
  \/ \E slot \in Slots : DeleteRow(slot) \/ \E body \in Bodies : SetRow(slot, body)
  \/ SearchStep

RecallSpec == RecallInit /\ [][RecallNext]_recallVars
-----------------------------------------------------------------------------

Answered == pc = "done"
\* No tier holds more rows than one SELECT of stage 1 returns.
Shallow == \A i \in DOMAIN Tiers :
             Cardinality({s \in Slots : s[1] = Tiers[i] /\ s[3] = Own}) <= Depth
Carries(v) == query.tokens # <<>> /\ Asked \subseteq v.body
              /\ ~(query.terminal /\ PurePrep(v.body))

\* A memory that holds every word of the query, or that the query names, and
\* that nobody touched while the search ran, is on the page, unless others
\* filled it (the cut comes before the bodies: a hit deleted by then leaves the
\* page short); whatever other clients wrote between the SELECTs.  Excepted is
\* what the gates refuse by design: a negated question, and a corpus that
\* multiplied after it was counted (multi_record_search, _hydrate_hits,
\* _merge_stage0, _search_rows).
Roomy == \/ Cardinality({Ident(v) : v \in seen}) <= Limit
         \/ ~shrunk /\ Cardinality(page) < Limit
Refused == /\ query.kind = "gated" /\ verdict # "ABSTAINED_ON"
           /\ Heavy = {} \/ Dropped \intersect Negations # {}
ByName(v) == v.tier = "entity" /\ v.key \in query.exact /\ query.kind = "gated"
SteadyFound ==
  Answered /\ Shallow /\ Roomy =>
    \A v \in steady :
      (Carries(v) /\ ~Refused) \/ (ByName(v) /\ verdict # "ABSTAINED_ON")
      => \E h \in page : Ident(h) = Ident(v)

\* A zero that says why says the truth: a word called unsupported was at some
\* moment of the search in no memory, in no form the shadow knows, and a store
\* called empty was empty at some moment (verdicts.py; multi_record.py:614).
\* Only while clients add: the probes are separate statements, and a memory
\* deleted behind one while another is written ahead of it escapes both.
ZeroHonest ==
  Answered /\ ~shrunk =>
    /\ verdict = "ABSTAINED_ON" => Token \in absent
    /\ verdict = "EMPTY_STORE" => wasEmpty

\* "A row deleted between recall and hydration is dropped: it no longer exists,
\* and returning it would invent it" (_hydrate_hits): a hit's text was, during
\* the search, the text of the memory it names.
HitsAreReal == Answered => page \subseteq seen
=============================================================================
