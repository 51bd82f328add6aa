------------------------------- MODULE Search -------------------------------
(***************************************************************************)
(* The hybrid search of an instance's index: Indexer.Search of internal/   *)
(* service/index.go, the reads of searchIndexRepo it makes, and FuseRRF of *)
(* internal/index/rank.go.  The chunks and the keyword matches are read by *)
(* two statements, between which a run may delete and add chunks; a chunk  *)
(* and its row in the full-text table are written in one transaction.      *)
(*                                                                         *)
(* All that a query can tell of a text is how similar its vector is and    *)
(* how well its words match: a content is [sim, word], where word = 0 is   *)
(* no match.  Refused queries and a failing embedder return an error       *)
(* before the index is read and are left out.                              *)
(***************************************************************************)
EXTENDS Integers, Sequences, SequencesExt, FiniteSetsExt

CONSTANTS
    Contents,            \* what chunks say
    MaxId,               \* bound on the chunks ever inserted
    MinRelevance, Pool,  \* minRelevanceScore, searchCandidatePool
    Limits, DefaultLimit, MaxLimit,
    RrfK                 \* rrfK

ASSUME SearchAssumption ==
    /\ Contents \subseteq [sim : Int, word : Nat] /\ MinRelevance \in Int
    /\ MaxId \in Nat /\ Limits \subseteq Int /\ MaxLimit \in Nat
    /\ Pool \in Nat \ {0} /\ DefaultLimit \in Nat \ {0} /\ RrfK \in Nat

VARIABLES
    phase,   \* "index", "keyword", "fuse" or "answered"
    table,   \* the chunks: contents by identifier
    lastId,  \* the AUTOINCREMENT sequence of their table
    limit, loaded, byVector, byKeyword, \* locals of Search
    hits
searchVars == <<phase, table, lastId, limit, loaded, byVector, byKeyword, hits>>

Empty == [i \in {} |-> [sim |-> 0, word |-> 0]]

SearchInit ==
    /\ phase = "index" /\ table = Empty /\ lastId = 0
    /\ limit = 0 /\ loaded = Empty /\ byVector = <<>> /\ byKeyword = <<>> /\ hits = <<>>

-----------------------------------------------------------------------------
\* A run of the indexer inserts and deletes chunks.
InsertChunk(c) ==
    /\ phase # "answered" /\ lastId < MaxId
    /\ lastId' = lastId + 1
    /\ table' = [i \in DOMAIN table \cup {lastId + 1} |-> IF i = lastId + 1 THEN c ELSE table[i]]
    /\ UNCHANGED <<phase, limit, loaded, byVector, byKeyword, hits>>

DeleteChunk(i) ==
    /\ phase # "answered"
    /\ table' = [j \in DOMAIN table \ {i} |-> table[j]]
    /\ UNCHANGED <<phase, lastId, limit, loaded, byVector, byKeyword, hits>>

-----------------------------------------------------------------------------
\* The rankings of identifiers by their worth, the best Pool of them; ties in
\* any order.
Rankings(worth) ==
    {SubSeq(r, 1, Min({Pool, Len(r)})) : r \in
        {s \in SetToSeqs(DOMAIN worth) : \A i, j \in DOMAIN s : i < j => worth[s[i]] >= worth[s[j]]}}

\* LoadAll, and the ranking by similarity of what is similar enough.
LoadAll(asked) ==
    /\ phase = "index"
    /\ limit' = IF asked <= 0 \/ asked > MaxLimit THEN DefaultLimit ELSE asked
    /\ loaded' = table
    /\ LET near == {i \in DOMAIN table : table[i].sim >= MinRelevance}
       IN  byVector' \in Rankings([i \in near |-> table[i].sim])
    /\ phase' = IF table = Empty THEN "answered" ELSE "keyword"
    /\ UNCHANGED <<table, lastId, byKeyword, hits>>

\* A failure of the keyword search does not take the vector search down.
BM25Search ==
    /\ phase = "keyword"
    /\ \/ LET matching == {i \in DOMAIN table : table[i].word > 0}
          IN  byKeyword' \in Rankings([i \in matching |-> table[i].word])
       \/ byKeyword' = <<>>
    /\ phase' = "fuse"
    /\ UNCHANGED <<table, lastId, limit, loaded, byVector, hits>>

\* Scores are fractions.  A list gives an identifier the reciprocal of its
\* place, or nothing.
Fraction(n, d) == [num |-> n, den |-> d]
Plus(x, y) == Fraction(x.num * y.den + y.num * x.den, x.den * y.den)
Exceeds(x, y) == x.num * y.den > y.num * x.den
Reciprocal(ranking, id) ==
    IF id \in Range(ranking) THEN Fraction(1, RrfK + CHOOSE p \in DOMAIN ranking : ranking[p] = id)
    ELSE Fraction(0, 1)

\* Mutant of Score: a place in the second list replaces the one in the first.
ScoreLastWins(one, two, id) ==
    IF id \in Range(two) THEN Reciprocal(two, id) ELSE Reciprocal(one, id)

Score(one, two, id) == Plus(Reciprocal(one, id), Reciprocal(two, id))

\* The best score first; of equal ones, the lower identifier.
FuseRRF(one, two) ==
    LET Better(a, b) == \/ Exceeds(Score(one, two, a), Score(one, two, b))
                        \/ ~Exceeds(Score(one, two, b), Score(one, two, a)) /\ a < b
    IN  {s \in SetToSeqs(Range(one) \cup Range(two)) : \A i, j \in DOMAIN s : i < j => Better(s[i], s[j])}

\* The list is cut to the limit before identifiers that were not loaded, of
\* chunks inserted in between, are passed over; the others keep their order.
Answer ==
    /\ phase = "fuse"
    /\ \E fused \in FuseRRF(byVector, byKeyword) :
          LET best == SubSeq(fused, 1, Min({limit, Len(fused)}))
          IN  hits' \in {h \in SetToSeqs(Range(best) \cap DOMAIN loaded) :
                  \A i, j \in DOMAIN h : i < j => \E p, q \in DOMAIN best : p < q /\ best[p] = h[i] /\ best[q] = h[j]}
    /\ phase' = "answered"
    /\ UNCHANGED <<table, lastId, limit, loaded, byVector, byKeyword>>

SearchNext ==
    \/ \E c \in Contents : InsertChunk(c)
    \/ \E i \in DOMAIN table : DeleteChunk(i)
    \/ \E n \in Limits : LoadAll(n)
    \/ BM25Search \/ Answer

SearchSpec == SearchInit /\ [][SearchNext]_searchVars

-----------------------------------------------------------------------------
\* a is nowhere behind b, and ahead of it somewhere; what a list lacks comes
\* after all it has.
Place(ranking, id) == IF id \in Range(ranking) THEN CHOOSE p \in DOMAIN ranking : ranking[p] = id ELSE Pool + 1
Ahead(a, b) ==
    /\ Place(byVector, a) <= Place(byVector, b) /\ Place(byKeyword, a) <= Place(byKeyword, b)
    /\ <<Place(byVector, a), Place(byKeyword, a)>> # <<Place(byVector, b), Place(byKeyword, b)>>

(* "a chunk that scores well on either keyword or vector similarity - not  *)
(* only one it tops both on - surfaces near the top" (FuseRRF): whatever a *)
(* run writes between the two reads, a hit is shown once, is relevant by   *)
(* the text that is shown for it, comes with every loaded chunk that is    *)
(* ahead of it in both lists before it; and the answer is as long as the   *)
(* limit and what was found allow, less one hit at most for each chunk     *)
(* that was added between the reads: Search cuts its list to the limit     *)
(* before it passes over those (index.go:716-725).                         *)
HitsAreTheBest ==
    phase = "answered" =>
        LET found == Range(byVector) \cup Range(byKeyword)
            place == [id \in Range(hits) |-> CHOOSE p \in DOMAIN hits : hits[p] = id]
        IN  /\ Cardinality(Range(hits)) = Len(hits)
            /\ \A id \in Range(hits) : loaded[id].sim >= MinRelevance \/ loaded[id].word > 0
            /\ \A b \in Range(hits) : \A a \in found \cap DOMAIN loaded :
                  Ahead(a, b) => a \in Range(hits) /\ place[a] < place[b]
            /\ Len(hits) <= limit
            /\ Len(hits) + Cardinality(found \ DOMAIN loaded) >= Min({limit, Cardinality(found)})
=============================================================================
